---- MODULE Spec2Model ----
(***************************************************************************)
(* Flight logbook: the currency / certification engine and the statistics  *)
(* engine, as a state machine over the ledger (flights, simulator          *)
(* sessions, ground sessions, medicals), the wall clock (today: the date   *)
(* on which a call starts), and the last call with its result.             *)
(* Times are counted in tenths of an hour (DecimalField, decimal_places=1),*)
(* dates are civil records [year, month, day].                             *)
(***************************************************************************)
EXTENDS Integers, Sequences, FiniteSets, Bags, TLC

VARIABLES flights, sims, grounds, medicals, today, call

vars == <<flights, sims, grounds, medicals, today, call>>

(***************************************************************************)
(* Optional values: Python's None and a present value.                     *)
(***************************************************************************)
None == <<>>
Some(x) == <<x>>
IsNone(o) == o = <<>>
Val(o) == o[1]

Min(a, b) == IF a <= b THEN a ELSE b
Max(a, b) == IF a >= b THEN a ELSE b

(***************************************************************************)
(* datetime.date, timedelta and dateutil.relativedelta, as the code uses    *)
(* them.                                                                   *)
(***************************************************************************)
Date(y, m, d) == [year |-> y, month |-> m, day |-> d]

IsLeap(y) == (y % 4 = 0) /\ ((y % 100 # 0) \/ (y % 400 = 0))

DaysInMonth(y, m) ==
    IF m = 2 THEN (IF IsLeap(y) THEN 29 ELSE 28)
    ELSE IF m \in {4, 6, 9, 11} THEN 30 ELSE 31

\* Days of the year before the first day of month m.
DaysBeforeMonth(y, m) ==
    <<0, 31, 59, 90, 120, 151, 181, 212, 243, 273, 304, 334>>[m]
        + (IF m > 2 /\ IsLeap(y) THEN 1 ELSE 0)

DaysBeforeYear(y) ==
    LET p == y - 1 IN p * 365 + (p \div 4) - (p \div 100) + (p \div 400)

\* date.toordinal()
ToOrdinal(d) == DaysBeforeYear(d.year) + DaysBeforeMonth(d.year, d.month) + d.day

\* date.fromordinal(n)
FromOrdinal(n) ==
    LET n0   == n - 1
        n400 == n0 \div 146097
        r400 == n0 % 146097
        n100 == r400 \div 36524
        r100 == r400 % 36524
        n4   == r100 \div 1461
        r4   == r100 % 1461
        n1   == r4 \div 365
        r1   == r4 % 365
        y    == n400 * 400 + n100 * 100 + n4 * 4 + n1 + 1
    IN  IF n1 = 4 \/ n100 = 4
        THEN Date(y - 1, 12, 31)
        ELSE LET est == (r1 + 50) \div 32
                 m   == IF DaysBeforeMonth(y, est) > r1 THEN est - 1 ELSE est
             IN  Date(y, m, r1 - DaysBeforeMonth(y, m) + 1)

\* date + timedelta(days=n)
AddDays(d, n) == FromOrdinal(ToOrdinal(d) + n)

\* (d1 - d2).days
DaysBetween(d1, d2) == ToOrdinal(d1) - ToOrdinal(d2)

\* d1 <= d2 on dates
DateLE(d1, d2) ==
    \/ d1.year < d2.year
    \/ d1.year = d2.year /\ d1.month < d2.month
    \/ d1.year = d2.year /\ d1.month = d2.month /\ d1.day <= d2.day

DateLT(d1, d2) == DateLE(d1, d2) /\ d1 # d2

\* d + relativedelta(months=k[, day=absDay]); absDay = 0 stands for "day not given".
\* The month is shifted, then the day (the absolute one when given) is clamped
\* to the length of the resulting month.
AddRelativeMonths(d, k, absDay) ==
    LET t  == d.year * 12 + (d.month - 1) + k
        y  == t \div 12
        m  == (t % 12) + 1
        dd == IF absDay = 0 THEN d.day ELSE absDay
    IN  Date(y, m, Min(dd, DaysInMonth(y, m)))

(***************************************************************************)
(* The ledger.  A table is a bag of rows; a query without an explicit total *)
(* order may return equal-keyed rows in any order.                         *)
(***************************************************************************)
\* The rows of a table, copies of equal rows told apart by a copy number.
Rows(table) == UNION {{<<r, i>> : i \in 1..table[r]} : r \in DOMAIN table}

RECURSIVE SumOver(_, _)
\* .aggregate(Sum(field)) over a set of rows (0 where the code writes "or 0").
SumOver(rows, field) ==
    IF rows = {} THEN 0
    ELSE LET x == CHOOSE x \in rows : TRUE
         IN  x[1][field] + SumOver(rows \ {x}, field)

\* The query without its pilot filter.
FlightsOfAnyPilot(pilot) == Rows(flights)

\* Flight.objects.filter(pilot=pilot)
FlightsOf(pilot) == {x \in Rows(flights) : x[1].pilot = pilot}

RECURSIVE OrderByDateDesc(_)
\* .order_by('-date'): every listing of the rows in descending date order
\* (rows of equal date in either order).
OrderByDateDesc(rows) ==
    IF rows = {} THEN {<<>>}
    ELSE LET latest == {x \in rows : \A y \in rows : DateLE(y[1].date, x[1].date)}
         IN  UNION {{<<x>> \o s : s \in OrderByDateDesc(rows \ {x})} : x \in latest}

(***************************************************************************)
(* Bounds and input sets.                                                  *)
(***************************************************************************)
MaxFlights == 3

\* The logbook owner and another pilot whose flights are in the same table.
Owner == "owner"
Other == "other"
PilotIds == {Owner, Other}

\* flights/models.py Flight: the fields the engine reads.
BlankFlight ==
    [pilot |-> Owner, date |-> Date(2025, 3, 1),
     flight_time |-> 0, pic_time |-> 0, sic_time |-> 0,
     flight_training_received |-> 0, xc_time |-> 0,
     day_time |-> 0, night_time |-> 0,
     actual_instrument_time |-> 0, simulated_instrument_time |-> 0,
     day_landings |-> 0, day_fullstop_landings |-> 0,
     night_landings |-> 0, night_fullstop_landings |-> 0,
     plane |-> 1, route |-> 1, instructor |-> None, passengers |-> {}]

Ref == Date(2025, 3, 1)

\* Clock values and flight dates of the currency scenarios: 95, 70 and 40
\* days before Ref, and Ref itself; the clock stands at Ref or 5 days before,
\* so a flight is on the window's first day, before it, inside it, on the
\* current day, or dated ahead of the clock.
CurrencyTodays == {AddDays(Ref, -5), Ref}

\* l is <<day_landings, night_landings, night_fullstop_landings>> of a flight.
CurrencyFlights ==
    {[BlankFlight EXCEPT !.date = d, !.day_landings = l[1],
                         !.night_landings = l[2], !.night_fullstop_landings = l[3]] :
        d \in {AddDays(Ref, -95), AddDays(Ref, -70), AddDays(Ref, -40), Ref},
        l \in {<<1, 0, 0>>, <<2, 0, 0>>, <<0, 1, 0>>, <<0, 2, 2>>, <<1, 1, 1>>}}
    \cup {[BlankFlight EXCEPT !.pilot = Other, !.date = AddDays(Ref, -40),
                              !.day_landings = 3, !.night_landings = 3,
                              !.night_fullstop_landings = 3]}

\* The window query turned around: the flights dated up to 90 days ago.
RecentFlightsBefore(pilot, now) ==
    LET ninety_days_ago == AddDays(now, -90)
    IN  {x \in FlightsOf(pilot) : DateLE(x[1].date, ninety_days_ago)}

\* The window query with its first day left out (date__gt).
RecentFlightsAfter(pilot, now) ==
    LET ninety_days_ago == AddDays(now, -90)
    IN  {x \in FlightsOf(pilot) : DateLT(ninety_days_ago, x[1].date)}

(***************************************************************************)
(* check_passenger_currency                                                *)
(***************************************************************************)
\* Flight.objects.filter(pilot=pilot, date__gte=ninety_days_ago)
RecentFlights(pilot, now) ==
    LET ninety_days_ago == AddDays(now, -90)
    IN  {x \in FlightsOf(pilot) : DateLE(ninety_days_ago, x[1].date)}

\* Flight.objects.filter(pilot=pilot, <field>__gt=0)
LandingFlights(pilot, field) == {x \in FlightsOf(pilot) : x[1][field] > 0}

RECURSIVE ExpiryScanNoCarry(_, _, _, _)
\* The scan with the running count not carried from one flight to the next.
ExpiryScanNoCarry(order, field, i, count) ==
    IF i > Len(order) THEN None
    ELSE LET c == order[i][1][field]
         IN  IF c >= 3 THEN Some(AddDays(order[i][1].date, 90))
             ELSE ExpiryScanNoCarry(order, field, i + 1, c)

RECURSIVE ExpiryScan(_, _, _, _)
\* The loop over the ordered flights: accumulate, stop at the first flight at
\* which the running count reaches 3.
ExpiryScan(order, field, i, count) ==
    IF i > Len(order) THEN None
    ELSE LET c == count + order[i][1][field]
         IN  IF c >= 3 THEN Some(AddDays(order[i][1].date, 90))
             ELSE ExpiryScan(order, field, i + 1, c)

\* The threshold taken as "more than 3".
IsCurrentStrict(count) == count > 3

IsCurrent(count) == count >= 3

PassengerCurrency(pilot, now, dayOrder, nightOrder) ==
    LET recent == RecentFlights(pilot, now)
        day_landings == SumOver(recent, "day_landings")
        night_fullstop_landings == SumOver(recent, "night_fullstop_landings")
    IN  [day_current |-> IsCurrent(day_landings),
         day_landings |-> day_landings,
         day_expiry |-> ExpiryScan(dayOrder, "day_landings", 1, 0),
         night_current |-> IsCurrent(night_fullstop_landings),
         night_landings |-> night_fullstop_landings,
         night_expiry |-> ExpiryScan(nightOrder, "night_fullstop_landings", 1, 0)]

CheckPassengerCurrency(pilot) ==
    /\ \E dayOrder \in OrderByDateDesc(LandingFlights(pilot, "day_landings")),
          nightOrder \in OrderByDateDesc(LandingFlights(pilot, "night_fullstop_landings")) :
            call' = [fn |-> "check_passenger_currency", pilot |-> pilot, now |-> today,
                     ret |-> PassengerCurrency(pilot, today, dayOrder, nightOrder)]
    /\ UNCHANGED <<flights, sims, grounds, medicals, today>>

(***************************************************************************)
(* The persistence layer: rows are added to the ledger from outside.       *)
(***************************************************************************)
NoCall == [fn |-> "none"]

AddFlight(f) ==
    /\ BagCardinality(flights) < MaxFlights
    /\ flights' = flights (+) SetToBag({f})
    /\ call' = NoCall
    /\ UNCHANGED <<sims, grounds, medicals, today>>

(***************************************************************************)
(* Currency scenarios.                                                     *)
(***************************************************************************)
\* The tables before the first row is saved; the clock stands at one of todays.
InitLedger(todays) ==
    /\ flights = EmptyBag
    /\ sims = EmptyBag
    /\ grounds = EmptyBag
    /\ medicals = EmptyBag
    /\ today \in todays
    /\ call = NoCall

NextCurrency ==
    \/ \E f \in CurrencyFlights : AddFlight(f)
    \/ CheckPassengerCurrency(Owner)

SpecCurrency == InitLedger(CurrencyTodays) /\ [][NextCurrency]_vars

(***************************************************************************)
(* medicals/models.py: Medical and its privilege ladder.                   *)
(***************************************************************************)
MaxMedicals == 2

\* Examination dates: mid-month, month-end, leap day, a February whose 12th
\* month ends on a leap day, and a 31 December.
SampleMedicals ==
    {[pilot |-> Owner, classNumber |-> c, examination_date |-> d] :
        c \in 1..3,
        d \in {Date(2024, 1, 15), Date(2020, 1, 31), Date(2024, 2, 29),
               Date(2023, 2, 10), Date(2023, 12, 31)}}
    \cup {[pilot |-> Other, classNumber |-> 1, examination_date |-> Date(2025, 1, 20)]}

\* Clock values around the expiries 2024-12-31 and 2025-01-31 (the first-class
\* expiry of an examination in January 2024, the third-class expiry of one in
\* January 2020): 60, 59, 30, 29 and 0 days before 2025-01-31, and the day after.
MedicalTodays ==
    {Date(2024, 12, 2), Date(2024, 12, 3), Date(2025, 1, 1), Date(2025, 1, 2),
     Date(2025, 1, 31), Date(2025, 2, 1)}

\* expiry = examination_date + relativedelta(months=k) without the snap to
\* the end of the month.
MonthEndAfterNoSnap(d, k) == AddRelativeMonths(d, k, 0)

\* expiry = examination_date + relativedelta(months=k)
\* next_month = expiry + relativedelta(months=1, day=1)
\* return next_month - relativedelta(days=1)
MonthEndAfter(d, k) ==
    LET expiry == AddRelativeMonths(d, k, 0)
        next_month == AddRelativeMonths(expiry, 1, 1)
    IN  AddDays(next_month, -1)

GetFirstClassExpiry(m) ==
    IF m.classNumber # 1 THEN None ELSE Some(MonthEndAfter(m.examination_date, 12))

\* Second-class privileges of 24 months.
GetSecondClassExpiryLonger(m) ==
    IF m.classNumber \notin {1, 2} THEN None
    ELSE Some(MonthEndAfter(m.examination_date, 24))

GetSecondClassExpiry(m) ==
    IF m.classNumber \notin {1, 2} THEN None
    ELSE Some(MonthEndAfter(m.examination_date, 12))

GetThirdClassExpiry(m) == Some(MonthEndAfter(m.examination_date, 60))

\* The ladder read from the bottom: third class tried first.
GetCurrentPrivilegeLevelLowestFirst(m, as_of_date) ==
    IF DateLE(as_of_date, Val(GetThirdClassExpiry(m))) THEN Some(3)
    ELSE IF m.classNumber \in {1, 2} /\ DateLE(as_of_date, Val(GetSecondClassExpiry(m)))
    THEN Some(2)
    ELSE IF m.classNumber = 1 /\ DateLE(as_of_date, Val(GetFirstClassExpiry(m)))
    THEN Some(1)
    ELSE None

GetCurrentPrivilegeLevel(m, as_of_date) ==
    IF m.classNumber = 1 /\ DateLE(as_of_date, Val(GetFirstClassExpiry(m)))
    THEN Some(1)
    ELSE IF m.classNumber \in {1, 2} /\ DateLE(as_of_date, Val(GetSecondClassExpiry(m)))
    THEN Some(2)
    ELSE IF DateLE(as_of_date, Val(GetThirdClassExpiry(m))) THEN Some(3)
    ELSE None

GetNextExpirationDate(m, as_of_date) ==
    LET current_level == GetCurrentPrivilegeLevel(m, as_of_date)
    IN  IF current_level = Some(1) THEN GetFirstClassExpiry(m)
        ELSE IF current_level = Some(2) THEN GetSecondClassExpiry(m)
        ELSE IF current_level = Some(3) THEN GetThirdClassExpiry(m)
        ELSE None

(***************************************************************************)
(* check_medical_status                                                    *)
(***************************************************************************)
\* Medical.objects.filter(pilot=pilot)
MedicalsOf(pilot) == {x \in Rows(medicals) : x[1].pilot = pilot}

\* .order_by('-examination_date').first(): a row with the latest examination
\* date (any of them when several share it), None when there is no row.
LatestMedicals(pilot) ==
    IF MedicalsOf(pilot) = {} THEN {None}
    ELSE {Some(x[1]) : x \in {y \in MedicalsOf(pilot) :
            \A z \in MedicalsOf(pilot) :
                DateLE(z[1].examination_date, y[1].examination_date)}}

\* The dictionary returned when there is no medical, and by the except clause.
NoMedicalResult ==
    [has_medical |-> FALSE, original_class |-> None, current_class |-> None,
     examination_date |-> None, expiry |-> None, first_class_expiry |-> None,
     second_class_expiry |-> None, third_class_expiry |-> None,
     days_remaining |-> None, status |-> "none"]

\* The thresholds one day off.
StatusOfLoose(current_privilege, days_remaining) ==
    IF IsNone(current_privilege) THEN "expired"
    ELSE IF ~IsNone(days_remaining)
    THEN (IF Val(days_remaining) <= 30 THEN "critical"
          ELSE IF Val(days_remaining) <= 60 THEN "warning"
          ELSE "current")
    ELSE "expired"

StatusOf(current_privilege, days_remaining) ==
    IF IsNone(current_privilege) THEN "expired"
    ELSE IF ~IsNone(days_remaining)
    THEN (IF Val(days_remaining) < 30 THEN "critical"
          ELSE IF Val(days_remaining) < 60 THEN "warning"
          ELSE "current")
    ELSE "expired"

\* The body of the try block for a medical that was found; d1, d2 and d3 are
\* the dates read by get_current_privilege_level (date.today()),
\* get_next_expiration_date (date.today()) and datetime.now().date().
MedicalStatus(m, d1, d2, d3) ==
    LET current_privilege == GetCurrentPrivilegeLevel(m, d1)
        next_expiry == GetNextExpirationDate(m, d2)
        days_remaining == IF ~IsNone(next_expiry)
                          THEN Some(DaysBetween(Val(next_expiry), d3))
                          ELSE None
    IN  [has_medical |-> TRUE,
         original_class |-> Some(m.classNumber),
         current_class |-> current_privilege,
         examination_date |-> Some(m.examination_date),
         expiry |-> next_expiry,
         first_class_expiry |-> GetFirstClassExpiry(m),
         second_class_expiry |-> GetSecondClassExpiry(m),
         third_class_expiry |-> GetThirdClassExpiry(m),
         days_remaining |-> days_remaining,
         status |-> StatusOf(current_privilege, days_remaining)]

\* An except clause that lets the exception through.
OnMedicalErrorReraise == [raised |-> TRUE, ret |-> None]

\* except Exception: return the "none" dictionary.
OnMedicalError == [raised |-> FALSE, ret |-> Some(NoMedicalResult)]

\* Where an exception can be raised inside the try block: nowhere, in the
\* query, or while the record is evaluated.
Faults == {"none", "query", "evaluate"}

MedicalOutcome(latest, fault, d1, d2, d3) ==
    IF fault = "query" THEN OnMedicalError
    ELSE IF IsNone(latest) THEN [raised |-> FALSE, ret |-> Some(NoMedicalResult)]
    ELSE IF fault = "evaluate" THEN OnMedicalError
    ELSE [raised |-> FALSE, ret |-> Some(MedicalStatus(Val(latest), d1, d2, d3))]

\* The three reads of the clock follow each other; midnight may pass between
\* two of them.  today is the date on which the call starts.
ClockReads(start) ==
    {r \in [1..3 -> {start, AddDays(start, 1)}] :
        DateLE(r[1], r[2]) /\ DateLE(r[2], r[3])}

CheckMedicalStatus(pilot) ==
    /\ \E latest \in LatestMedicals(pilot), fault \in Faults, r \in ClockReads(today) :
            LET out == MedicalOutcome(latest, fault, r[1], r[2], r[3])
            IN  call' = [fn |-> "check_medical_status", pilot |-> pilot,
                         fault |-> fault, reads |-> r,
                         raised |-> out.raised, ret |-> out.ret]
    /\ UNCHANGED <<flights, sims, grounds, medicals, today>>

AddMedical(m) ==
    /\ BagCardinality(medicals) < MaxMedicals
    /\ medicals' = medicals (+) SetToBag({m})
    /\ call' = NoCall
    /\ UNCHANGED <<flights, sims, grounds, today>>

NextMedical ==
    \/ \E m \in SampleMedicals : AddMedical(m)
    \/ CheckMedicalStatus(Owner)

SpecMedical == InitLedger(MedicalTodays) /\ [][NextMedical]_vars

(***************************************************************************)
(* get_monthly_breakdown                                                   *)
(***************************************************************************)
MaxMonths == 12

\* months=12: the default of get_monthly_breakdown and the value its callers pass.
DefaultMonths == 12

\* Clock values: a 31st (the start date is clamped in a shorter month) and a
\* mid-January (the window spans a change of year).
MonthlyTodays == {Date(2025, 3, 31), Date(2025, 1, 15)}

\* Flight dates: the day before a 12-month window, its first day, a second
\* date in that month, a date ahead of the clock in January 2025, and a date
\* in a month after both clock values; flight_time in tenths of an hour.
MonthlyFlights ==
    {[BlankFlight EXCEPT !.date = d, !.flight_time = t] :
        d \in {Date(2024, 3, 31), Date(2024, 4, 1), Date(2024, 4, 30),
               Date(2025, 1, 20), Date(2025, 4, 1)},
        t \in {5, 12}}
    \cup {[BlankFlight EXCEPT !.pilot = Other, !.date = Date(2024, 4, 30),
                              !.flight_time = 30]}

\* strftime('%b'): the abbreviated month names.
MonthAbbr ==
    <<"Jan", "Feb", "Mar", "Apr", "May", "Jun", "Jul", "Aug", "Sep", "Oct", "Nov", "Dec">>

\* current.strftime('%b %Y'): the abbreviated month name and the year.
StrfMonthYear(d) == <<MonthAbbr[d.month], d.year>>

\* The grouping key taken as the flight's date itself.
TruncMonthIdentity(d) == d

\* TruncMonth('date'): the first day of the date's month.
TruncMonth(d) == Date(d.year, d.month, 1)

\* The start date that goes back `months` months instead of months - 1.
MonthlyStartOneMore(now, months) ==
    LET s == AddRelativeMonths(now, -months, 0)
    IN  Date(s.year, s.month, 1)

\* start_date = (now - relativedelta(months=months-1)).replace(day=1)
MonthlyStart(now, months) ==
    LET s == AddRelativeMonths(now, -(months - 1), 0)
    IN  Date(s.year, s.month, 1)

\* The query grouped by month, as the dictionary month -> hours
\* (float(hours) if hours else 0).
HoursByMonth(pilot, start_date) ==
    LET rows == {x \in FlightsOf(pilot) : DateLE(start_date, x[1].date)}
        keys == {TruncMonth(x[1].date) : x \in rows}
    IN  [k \in keys |->
            SumOver({x \in rows : TruncMonth(x[1].date) = k}, "flight_time")]

\* hours_by_month.get(month_key, 0)
DictGet(dict, key, default) == IF key \in DOMAIN dict THEN dict[key] ELSE default

RECURSIVE MonthlyLoop(_, _, _)
\* for _ in range(months): append the entry of `current`, step one month.
MonthlyLoop(current, remaining, hours_by_month) ==
    IF remaining <= 0 THEN <<>>
    ELSE LET month_key == Date(current.year, current.month, 1)
         IN  <<[month |-> StrfMonthYear(current),
                hours |-> DictGet(hours_by_month, month_key, 0)]>>
             \o MonthlyLoop(AddRelativeMonths(current, 1, 0), remaining - 1,
                            hours_by_month)

MonthlyBreakdown(pilot, months, now) ==
    LET start_date == MonthlyStart(now, months)
    IN  MonthlyLoop(start_date, months, HoursByMonth(pilot, start_date))

GetMonthlyBreakdown(pilot, months) ==
    /\ call' = [fn |-> "get_monthly_breakdown", pilot |-> pilot, months |-> months,
                now |-> today, ret |-> MonthlyBreakdown(pilot, months, today)]
    /\ UNCHANGED <<flights, sims, grounds, medicals, today>>

NextMonthly ==
    \/ \E f \in MonthlyFlights : AddFlight(f)
    \/ \E n \in 1..MaxMonths : GetMonthlyBreakdown(Owner, n)

SpecMonthly == InitLedger(MonthlyTodays) /\ [][NextMonthly]_vars

(***************************************************************************)
(* get_instrument_breakdown, get_xc_pic_time, get_instrument_rating_progress*)
(* Hours are in tenths of an hour, percentages in tenths of a percent.     *)
(***************************************************************************)
MaxSims == 2

\* decimal_places=1: tenths of an hour in one hour.
TenthsPerHour == 10

\* min(simulator_simulated, 20)
MaxSimulatorCreditHours == 20

\* max(0, 40 - creditable_total)
RequiredInstrumentHours == 40

\* required_xc_pic = 50
RequiredXcPicHours == 50

\* q is <<actual_instrument_time, simulated_instrument_time, xc_time,
\* pic_time>> of a flight.
InstrumentFlights ==
    {[BlankFlight EXCEPT !.actual_instrument_time = q[1],
                         !.simulated_instrument_time = q[2],
                         !.xc_time = q[3], !.pic_time = q[4],
                         !.flight_time = Max(q[1] + q[2], q[3])] :
        q \in {<<1, 0, 0, 0>>, <<150, 0, 0, 0>>, <<0, 125, 0, 0>>, <<150, 125, 0, 0>>,
               <<0, 0, 14, 14>>, <<0, 0, 20, 0>>}}
    \cup {[BlankFlight EXCEPT !.pilot = Other, !.actual_instrument_time = 30,
                              !.simulated_instrument_time = 30, !.flight_time = 60]}

\* flights/models.py SimulatorFlight: the fields the engine reads.
SampleSims ==
    {[pilot |-> Owner, simulated_instrument_time |-> t] : t \in {3, 120}}
    \cup {[pilot |-> Other, simulated_instrument_time |-> 120]}

\* SimulatorFlight.objects.filter(pilot=pilot)
SimsOf(pilot) == {x \in Rows(sims) : x[1].pilot = pilot}

\* round(x, 1) of x = num / den tenths (num, den > 0 or num = 0): the nearest
\* tenth.  When x lies exactly between two tenths the float that stands for x
\* may lie on either side, and the result is either neighbour.
RoundToTenth(num, den) ==
    LET lo == num \div den
        r  == num % den
    IN  IF 2 * r < den THEN {lo}
        ELSE IF 2 * r > den THEN {lo + 1}
        ELSE {lo, lo + 1}

InstrumentBreakdown(pilot) ==
    LET actual == SumOver(FlightsOf(pilot), "actual_instrument_time")
        flight_simulated == SumOver(FlightsOf(pilot), "simulated_instrument_time")
        simulator_simulated == SumOver(SimsOf(pilot), "simulated_instrument_time")
        total_simulated == flight_simulated + simulator_simulated
    IN  [actual |-> actual,
         flight_simulated |-> flight_simulated,
         simulator_simulated |-> simulator_simulated,
         simulated |-> total_simulated,
         total |-> actual + total_simulated]

\* The sum of xc_time over every flight with cross-country time, whether or
\* not it has PIC time.
XcPicTimeAnyXc(pilot) ==
    SumOver({x \in FlightsOf(pilot) : x[1].xc_time > 0}, "xc_time")

\* Flight.objects.filter(pilot=pilot, xc_time__gt=0, pic_time__gt=0), Sum('xc_time')
XcPicTime(pilot) ==
    SumOver({x \in FlightsOf(pilot) : x[1].xc_time > 0 /\ x[1].pic_time > 0}, "xc_time")

\* The 20-hour cap put on all simulated time, flight or simulator.
CreditableSimulatedCapAll(flight_simulated, simulator_simulated) ==
    Min(flight_simulated + simulator_simulated, MaxSimulatorCreditHours * TenthsPerHour)

\* creditable_simulated = flight_simulated + min(simulator_simulated, 20)
CreditableSimulated(flight_simulated, simulator_simulated) ==
    flight_simulated + Min(simulator_simulated, MaxSimulatorCreditHours * TenthsPerHour)

\* The dictionary returned, given the rounded percentage.
InstrumentRatingProgress(pilot, percentage) ==
    LET b == InstrumentBreakdown(pilot)
        xc_pic_time == XcPicTime(pilot)
        creditable_simulated == CreditableSimulated(b.flight_simulated, b.simulator_simulated)
        creditable_total == b.actual + creditable_simulated
        required_xc_pic == RequiredXcPicHours * TenthsPerHour
    IN  [actual |-> b.actual,
         flight_simulated |-> b.flight_simulated,
         simulator_simulated |-> b.simulator_simulated,
         simulated |-> b.simulated,
         creditable_simulated |-> creditable_simulated,
         creditable_total |-> creditable_total,
         remaining |-> Max(0, RequiredInstrumentHours * TenthsPerHour - creditable_total),
         percentage |-> percentage,
         xc_pic_time |-> xc_pic_time,
         xc_pic_required |-> RequiredXcPicHours,
         xc_pic_remaining |-> Max(0, required_xc_pic - xc_pic_time),
         \* round(min(100, xc_pic_time / 50 * 100), 1): a whole number of tenths
         xc_pic_percentage |-> Min(1000, (xc_pic_time * 1000) \div required_xc_pic)]

\* percentage = min(100, (creditable_total / 40) * 100), then round(percentage, 1):
\* the values round() may give, in tenths of a percent.
RoundedPercentages(pilot) ==
    LET b == InstrumentBreakdown(pilot)
        creditable_total ==
            b.actual + CreditableSimulated(b.flight_simulated, b.simulator_simulated)
        required == RequiredInstrumentHours * TenthsPerHour
    IN  IF creditable_total >= required THEN {1000}
        ELSE RoundToTenth(creditable_total * 1000, required)

GetInstrumentRatingProgress(pilot) ==
    /\ \E percentage \in RoundedPercentages(pilot) :
            call' = [fn |-> "get_instrument_rating_progress", pilot |-> pilot,
                     ret |-> InstrumentRatingProgress(pilot, percentage)]
    /\ UNCHANGED <<flights, sims, grounds, medicals, today>>

AddSim(x) ==
    /\ BagCardinality(sims) < MaxSims
    /\ sims' = sims (+) SetToBag({x})
    /\ call' = NoCall
    /\ UNCHANGED <<flights, grounds, medicals, today>>

NextInstrument ==
    \/ \E f \in InstrumentFlights : AddFlight(f)
    \/ \E x \in SampleSims : AddSim(x)
    \/ GetInstrumentRatingProgress(Owner)

SpecInstrument == InitLedger({Ref}) /\ [][NextInstrument]_vars

(***************************************************************************)
(* get_total_times, get_xc_pic_time and get_commercial_license_progress.   *)
(* The percentages of the commercial progress are not rounded by the code: *)
(* they are kept here in hundredths of a percent, of which                 *)
(* current / required * 100 is a whole number for hours in tenths.         *)
(***************************************************************************)
RequiredTotalHours == 250
RequiredPicHours == 100
RequiredCommercialXcPicHours == 50

\* <<flight_time, pic_time, xc_time>> of a flight, in tenths of an hour: two
\* or three of them reach, miss by a tenth or pass the 250 / 100 / 50 hours.
CommercialFlights ==
    {[BlankFlight EXCEPT !.flight_time = p[1], !.pic_time = p[2], !.xc_time = p[3]] :
        p \in
            {<<1250, 500, 250>>, <<1249, 499, 0>>, <<1251, 0, 251>>,
             <<1250, 500, 249>>, <<20, 5, 20>>, <<0, 0, 0>>}}
    \cup {[BlankFlight EXCEPT !.pilot = Other, !.flight_time = 1250,
                              !.pic_time = 500, !.xc_time = 250]}

TotalTimes(pilot) ==
    LET fs == FlightsOf(pilot)
    IN  [total_time |-> SumOver(fs, "flight_time"),
         pic_time |-> SumOver(fs, "pic_time"),
         sic_time |-> SumOver(fs, "sic_time"),
         dual_time |-> SumOver(fs, "flight_training_received"),
         xc_time |-> SumOver(fs, "xc_time"),
         day_time |-> SumOver(fs, "day_time"),
         night_time |-> SumOver(fs, "night_time"),
         actual_instrument |-> SumOver(fs, "actual_instrument_time"),
         simulated_instrument |-> SumOver(fs, "simulated_instrument_time"),
         day_landings |-> SumOver(fs, "day_landings"),
         night_landings |-> SumOver(fs, "night_landings"),
         total_landings |-> SumOver(fs, "day_landings")
                            + SumOver(fs, "day_fullstop_landings")
                            + SumOver(fs, "night_landings")
                            + SumOver(fs, "night_fullstop_landings")]

\* A bar whose remaining hours are the plain difference.
ProgressBarUnclamped(current, required) ==
    [current |-> current,
     required |-> required * TenthsPerHour,
     remaining |-> required * TenthsPerHour - current,
     percentage |-> Min(100 * 100, (current * 1000) \div required)]

\* One bar of the commercial progress: current and required hours, remaining
\* = max(0, required - current), percentage = min(100, current/required*100).
ProgressBar(current, required) ==
    [current |-> current,
     required |-> required * TenthsPerHour,
     remaining |-> Max(0, required * TenthsPerHour - current),
     percentage |-> Min(100 * 100, (current * 1000) \div required)]

CommercialLicenseProgress(pilot) ==
    LET total_times == TotalTimes(pilot)
        xc_pic_time == XcPicTime(pilot)
    IN  [total_time |-> ProgressBar(total_times.total_time, RequiredTotalHours),
         pic_time |-> ProgressBar(total_times.pic_time, RequiredPicHours),
         xc_pic_time |-> ProgressBar(xc_pic_time, RequiredCommercialXcPicHours)]

GetTotalTimes(pilot) ==
    /\ call' = [fn |-> "get_total_times", pilot |-> pilot, ret |-> TotalTimes(pilot)]
    /\ UNCHANGED <<flights, sims, grounds, medicals, today>>

GetXcPicTime(pilot) ==
    /\ call' = [fn |-> "get_xc_pic_time", pilot |-> pilot, ret |-> XcPicTime(pilot)]
    /\ UNCHANGED <<flights, sims, grounds, medicals, today>>

GetCommercialLicenseProgress(pilot) ==
    /\ call' = [fn |-> "get_commercial_license_progress", pilot |-> pilot,
                ret |-> CommercialLicenseProgress(pilot)]
    /\ UNCHANGED <<flights, sims, grounds, medicals, today>>

NextCommercial ==
    \/ \E f \in CommercialFlights : AddFlight(f)
    \/ GetTotalTimes(Owner)
    \/ GetXcPicTime(Owner)
    \/ GetCommercialLicenseProgress(Owner)

SpecCommercial == InitLedger({Ref}) /\ [][NextCommercial]_vars

(***************************************************************************)
(* Planes, routes and the aircraft statistics: get_aircraft_breakdown,     *)
(* get_aircraft_class_breakdown, get_aircraft_type_statistics and          *)
(* get_aircraft_highlights.  Planes and routes are fixed tables keyed by   *)
(* primary key; a flight holds the keys.                                   *)
(***************************************************************************)
\* Plane rows.  tail_number carries no uniqueness constraint: rows 1 and 3
\* are two Plane records with the same tail number.
Planes ==
    <<[tail_number |-> "N1", type |-> "C172", plane_class |-> "Single Engine Land"],
      [tail_number |-> "N2", type |-> "PA44", plane_class |-> "Multi Engine Land"],
      [tail_number |-> "N1", type |-> "C152", plane_class |-> "Single Engine Land"]>>

\* Plane.__str__
PlaneStr(plane) == plane.tail_number

\* Route rows: the waypoint codes of the route's steps in order of sequence
\* (route 3 has no step).
Routes == <<(<<"KBFI", "KRNT">>), (<<"KPAE">>), (<<>>)>>

\* route.route_steps.order_by('sequence').first(), then waypoint.code when
\* there is a first step.
FirstWaypointCode(route) ==
    IF Routes[route] = <<>> THEN None ELSE Some(Routes[route][1])

\* <<plane, date, route, flight_time>> of a flight.
AircraftFlights ==
    {[BlankFlight EXCEPT !.plane = p[1], !.date = p[2], !.route = p[3],
                         !.flight_time = p[4]] : p \in
            {<<1, Date(2025, 1, 10), 1, 10>>, <<1, Date(2025, 2, 20), 2, 20>>,
             <<1, Date(2025, 2, 20), 3, 10>>, <<1, Date(2025, 1, 10), 1, 0>>,
             <<2, Date(2025, 1, 10), 2, 20>>, <<2, Date(2025, 2, 20), 1, 10>>,
             <<2, Date(2025, 1, 10), 1, 0>>,
             <<3, Date(2025, 1, 10), 2, 10>>, <<3, Date(2025, 2, 20), 2, 20>>}}
    \cup {[BlankFlight EXCEPT !.pilot = Other, !.plane = 2, !.route = 1,
                              !.flight_time = 50]}

RECURSIVE OrderByPlaneDateDesc(_)
\* .order_by('plane', '-date'): every listing of the rows by ascending plane
\* key, then descending date (rows equal in both in either order).
OrderByPlaneDateDesc(rows) ==
    IF rows = {} THEN {<<>>}
    ELSE LET first == {x \in rows : \A y \in rows :
                          \/ x[1].plane < y[1].plane
                          \/ x[1].plane = y[1].plane /\ DateLE(y[1].date, x[1].date)}
         IN  UNION {{<<x>> \o s : s \in OrderByPlaneDateDesc(rows \ {x})} : x \in first}

\* sorted(seq, key=..., reverse=True), keys[i] being the key of seq[i]: in
\* descending order of key, elements of equal key in their original order.
\* The keys are tuples of numbers of one length, compared as Python compares
\* tuples.
SortedReverse(seq, keys) ==
    LET n == Len(seq)
        KeyGT(a, b) ==
            \E i \in 1..Len(a) : a[i] > b[i] /\ \A j \in 1..(i - 1) : a[j] = b[j]
        Pos(i) == Cardinality({j \in 1..n : KeyGT(keys[j], keys[i])})
                  + Cardinality({j \in 1..i : keys[j] = keys[i]})
    IN  [p \in 1..n |-> seq[CHOOSE i \in 1..n : Pos(i) = p]]

RECURSIVE AircraftData(_, _)
\* The loop over the listed flights: aircraft_data as the sequence of its
\* values in insertion order, keyed by the plane's name.
AircraftData(listing, aircraft_data) ==
    IF listing = <<>> THEN aircraft_data
    ELSE LET flight == Head(listing)[1]
             plane_name == PlaneStr(Planes[flight.plane])
             known == \E i \in DOMAIN aircraft_data :
                          aircraft_data[i].tail_number = plane_name
             entered ==
                 IF known THEN aircraft_data
                 ELSE Append(aircraft_data,
                             [tail_number |-> plane_name,
                              type |-> Planes[flight.plane].type,
                              hours |-> 0,
                              location |-> FirstWaypointCode(flight.route)])
         IN  AircraftData(Tail(listing),
                 [i \in DOMAIN entered |->
                     IF entered[i].tail_number = plane_name
                     THEN [entered[i] EXCEPT !.hours = @ + flight.flight_time]
                     ELSE entered[i]])

\* The list returned for one listing of the flights.
AircraftBreakdown(listing) ==
    LET aircraft_data == AircraftData(listing, <<>>)
    IN  SortedReverse(aircraft_data,
                      [i \in DOMAIN aircraft_data |-> <<aircraft_data[i].hours>>])

AircraftHighlights(aircraft_breakdown) ==
    IF aircraft_breakdown = <<>>
    THEN [most_flown |-> None, least_flown |-> None, total_aircraft |-> 0]
    ELSE [most_flown |-> Some(aircraft_breakdown[1]),
          least_flown |-> Some(aircraft_breakdown[Len(aircraft_breakdown)]),
          total_aircraft |-> Len(aircraft_breakdown)]

GetAircraftBreakdown(pilot) ==
    /\ \E listing \in OrderByPlaneDateDesc(FlightsOf(pilot)) :
           call' = [fn |-> "get_aircraft_breakdown", pilot |-> pilot,
                    ret |-> AircraftBreakdown(listing)]
    /\ UNCHANGED <<flights, sims, grounds, medicals, today>>

GetAircraftHighlights(pilot) ==
    /\ \E listing \in OrderByPlaneDateDesc(FlightsOf(pilot)) :
           call' = [fn |-> "get_aircraft_highlights", pilot |-> pilot,
                    ret |-> AircraftHighlights(AircraftBreakdown(listing))]
    /\ UNCHANGED <<flights, sims, grounds, medicals, today>>

\* .values('plane__plane_class').annotate(hours=Sum('flight_time'),
\* flight_count=Count('id')): one row per class among the flights.
ClassData(pilot) ==
    LET fs == FlightsOf(pilot)
        ClassOf(x) == Planes[x[1].plane].plane_class
    IN  {[plane__plane_class |-> c,
          hours |-> SumOver({x \in fs : ClassOf(x) = c}, "flight_time"),
          flight_count |-> Cardinality({x \in fs : ClassOf(x) = c})] :
            c \in {ClassOf(x) : x \in fs}}

RECURSIVE SumHoursOf(_)
\* sum(float(entry['hours']) for entry in ...)
SumHoursOf(entries) ==
    IF entries = {} THEN 0
    ELSE LET en == CHOOSE en \in entries : TRUE
         IN  en.hours + SumHoursOf(entries \ {en})

\* The percentage cut to the tenth below instead of rounded.
ClassPercentageTruncated(hours, total_hours) ==
    IF total_hours > 0 THEN {(hours * 1000) \div total_hours} ELSE {0}

\* round((hours / total_hours * 100) if total_hours > 0 else 0, 1), in tenths
\* of a percent: the values the rounding can give.
ClassPercentage(hours, total_hours) ==
    IF total_hours > 0 THEN RoundToTenth(hours * 1000, total_hours) ELSE {0}

\* The dictionaries get_aircraft_class_breakdown can return.
AircraftClassBreakdown(pilot) ==
    LET class_data == ClassData(pilot)
        total_hours == SumHoursOf(class_data)
        classes == {en.plane__plane_class : en \in class_data}
        Entry(c) == CHOOSE en \in class_data : en.plane__plane_class = c
        percentages ==
            {pc \in [classes -> UNION {ClassPercentage(en.hours, total_hours) :
                                          en \in class_data}] :
                \A c \in classes : pc[c] \in ClassPercentage(Entry(c).hours, total_hours)}
    IN  {[c \in classes |-> [hours |-> Entry(c).hours,
                             flight_count |-> Entry(c).flight_count,
                             percentage |-> pc[c]]] : pc \in percentages}

\* .values('plane__type', 'plane__plane_class').annotate(...): one row per
\* pair of type and class among the flights.
TypeData(pilot) ==
    LET fs == FlightsOf(pilot)
        KindOf(x) == <<Planes[x[1].plane].type, Planes[x[1].plane].plane_class>>
    IN  {[type |-> k[1], plane_class |-> k[2],
          hours |-> SumOver({x \in fs : KindOf(x) = k}, "flight_time"),
          flight_count |-> Cardinality({x \in fs : KindOf(x) = k})] :
            k \in {KindOf(x) : x \in fs}}

RECURSIVE OrderByHoursDesc(_)
\* .order_by('-hours'): every listing of the rows in descending order of
\* hours (rows of equal hours in either order).
OrderByHoursDesc(entries) ==
    IF entries = {} THEN {<<>>}
    ELSE LET most == {en \in entries : \A other \in entries : other.hours <= en.hours}
         IN  UNION {{<<en>> \o s : s \in OrderByHoursDesc(entries \ {en})} : en \in most}

GetAircraftClassBreakdown(pilot) ==
    /\ \E breakdown \in AircraftClassBreakdown(pilot) :
           call' = [fn |-> "get_aircraft_class_breakdown", pilot |-> pilot,
                    ret |-> breakdown]
    /\ UNCHANGED <<flights, sims, grounds, medicals, today>>

GetAircraftTypeStatistics(pilot) ==
    /\ \E type_data \in OrderByHoursDesc(TypeData(pilot)) :
           call' = [fn |-> "get_aircraft_type_statistics", pilot |-> pilot,
                    ret |-> type_data]
    /\ UNCHANGED <<flights, sims, grounds, medicals, today>>

NextAircraft ==
    \/ \E f \in AircraftFlights : AddFlight(f)
    \/ GetAircraftBreakdown(Owner)
    \/ GetAircraftHighlights(Owner)
    \/ GetAircraftClassBreakdown(Owner)
    \/ GetAircraftTypeStatistics(Owner)

SpecAircraft == InitLedger({Ref}) /\ [][NextAircraft]_vars

(***************************************************************************)
(* People (the Pilot table: pilots, instructors, examiners, passengers)    *)
(* and get_passenger_leaderboard.  A flight holds the primary keys of its  *)
(* instructor and passengers.                                              *)
(***************************************************************************)
\* Pilot rows by primary key, with Pilot.RoleChoices values.
People ==
    <<[name |-> "Ann Ames", role |-> "PA"], [name |-> "Bob Bell", role |-> "PA"],
      [name |-> "Ira Innes", role |-> "I"], [name |-> "Eve Else", role |-> "E"],
      [name |-> "Pat Pike", role |-> "PI"], [name |-> "Gus Gray", role |-> "I"]>>

MaxLimit == 2

RECURSIVE Listings(_)
\* A query without order_by: the rows in any order.
Listings(rows) ==
    IF rows = {} THEN {<<>>}
    ELSE UNION {{<<x>> \o s : s \in Listings(rows \ {x})} : x \in rows}

\* <<passengers, flight_time>> of a flight.
PassengerFlights ==
    {[BlankFlight EXCEPT !.passengers = p[1], !.flight_time = p[2]] :
        p \in
            {<<{1}, 10>>, <<{1}, 20>>, <<{2}, 10>>, <<{2}, 20>>, <<{1, 2}, 10>>,
             <<{1, 5}, 10>>, <<{5}, 20>>, <<{3}, 10>>, <<{}, 10>>}}
    \cup {[BlankFlight EXCEPT !.pilot = Other, !.passengers = {1}, !.flight_time = 20]}

\* flight.passengers.filter(role=PASSENGER), as a set of keys.
PassengersAboard(flight) == {p \in flight.passengers : People[p].role = "PA"}

RECURSIVE PassengerVisits(_, _)
\* The two nested loops: the <<passenger, flight_time>> pairs in the order
\* met, the flights as listed and the passengers of a flight as the table
\* order lists them.
PassengerVisits(listing, order) ==
    IF listing = <<>> THEN <<>>
    ELSE LET flight == Head(listing)[1]
             aboard == SelectSeq(order, LAMBDA p : p \in PassengersAboard(flight))
         IN  [i \in 1..Len(aboard) |-> <<aboard[i], flight.flight_time>>]
             \o PassengerVisits(Tail(listing), order)

RECURSIVE PassengerStats(_, _)
\* passenger_stats as the sequence of its values in insertion order.
PassengerStats(visits, passenger_stats) ==
    IF visits = <<>> THEN passenger_stats
    ELSE LET passenger == Head(visits)[1]
             known == \E i \in DOMAIN passenger_stats :
                          passenger_stats[i].pilot = passenger
             entered ==
                 IF known THEN passenger_stats
                 ELSE Append(passenger_stats,
                             [pilot |-> passenger, flight_count |-> 0, total_time |-> 0])
         IN  PassengerStats(Tail(visits),
                 [i \in DOMAIN entered |->
                     IF entered[i].pilot = passenger
                     THEN [entered[i] EXCEPT !.flight_count = @ + 1,
                                             !.total_time = @ + Head(visits)[2]]
                     ELSE entered[i]])

\* The sort key that leaves the total time out.
PassengerKeyCountOnly(entry) == <<entry.flight_count>>

\* key=lambda x: (x['flight_count'], x['total_time'])
PassengerKey(entry) == <<entry.flight_count, entry.total_time>>

\* seq[:limit] for limit >= 0
Truncate(seq, limit) == SubSeq(seq, 1, Min(limit, Len(seq)))

PassengerLeaderboard(listing, order, limit) ==
    LET passenger_stats == PassengerStats(PassengerVisits(listing, order), <<>>)
    IN  Truncate(SortedReverse(passenger_stats,
                     [i \in DOMAIN passenger_stats |-> PassengerKey(passenger_stats[i])]),
                 limit)

GetPassengerLeaderboard(pilot, limit) ==
    /\ \E listing \in Listings(FlightsOf(pilot)) :
       \E order \in Listings(UNION {PassengersAboard(x[1]) : x \in FlightsOf(pilot)}) :
           call' = [fn |-> "get_passenger_leaderboard", pilot |-> pilot, limit |-> limit,
                    ret |-> PassengerLeaderboard(listing, order, limit)]
    /\ UNCHANGED <<flights, sims, grounds, medicals, today>>

NextPassengers ==
    \/ \E f \in PassengerFlights : AddFlight(f)
    \/ \E limit \in 0..MaxLimit : GetPassengerLeaderboard(Owner, limit)

SpecPassengers == InitLedger({Ref}) /\ [][NextPassengers]_vars

(***************************************************************************)
(* Ground sessions and get_instructor_leaderboard.                         *)
(***************************************************************************)
MaxGrounds == 1

\* <<instructor, flight_time>> of a flight.
InstructorFlights ==
    {[BlankFlight EXCEPT !.instructor = p[1], !.flight_time = p[2]] :
        p \in
            {<<Some(3), 30>>, <<Some(3), 20>>, <<Some(4), 100>>, <<Some(4), 60>>,
             <<Some(5), 100>>, <<None, 100>>}}
    \cup {[BlankFlight EXCEPT !.pilot = Other, !.instructor = Some(3),
                              !.flight_time = 100]}

\* Ground rows: instruction of the owner by an instructor who also flies
\* with the owner (3), by one met on the ground only (6), by a person of
\* role Pilot (5), and a session of another pilot.
SampleGrounds ==
    {[pilot |-> Owner, date |-> Ref, ground_time |-> 10, instructor |-> 3],
     [pilot |-> Owner, date |-> Ref, ground_time |-> 110, instructor |-> 6],
     [pilot |-> Owner, date |-> Ref, ground_time |-> 10, instructor |-> 5],
     [pilot |-> Other, date |-> Ref, ground_time |-> 50, instructor |-> 6]}

IsInstructorRole(p) == People[p].role \in {"I", "E"}

\* Flight.objects.filter(pilot=pilot, instructor__isnull=False).filter(
\* Q(instructor__role=INSTRUCTOR) | Q(instructor__role=EXAMINER))
FlightsInstructed(pilot) ==
    {x \in FlightsOf(pilot) :
        ~IsNone(x[1].instructor) /\ IsInstructorRole(Val(x[1].instructor))}

\* Ground.objects.filter(pilot=pilot).filter(Q(instructor__role=INSTRUCTOR)
\* | Q(instructor__role=EXAMINER))
GroundsInstructed(pilot) ==
    {x \in Rows(grounds) : x[1].pilot = pilot /\ IsInstructorRole(x[1].instructor)}

BlankInstructorStats(instructor) ==
    [pilot |-> instructor, flight_count |-> 0, ground_count |-> 0,
     flight_time |-> 0, ground_time |-> 0, total_time |-> 0]

RECURSIVE InstructorStatsFlights(_, _)
\* The loop over the flights: instructor_stats as the sequence of its values
\* in insertion order.
InstructorStatsFlights(listing, instructor_stats) ==
    IF listing = <<>> THEN instructor_stats
    ELSE LET flight == Head(listing)[1]
             instructor == Val(flight.instructor)
             known == \E i \in DOMAIN instructor_stats :
                          instructor_stats[i].pilot = instructor
             entered == IF known THEN instructor_stats
                        ELSE Append(instructor_stats, BlankInstructorStats(instructor))
         IN  InstructorStatsFlights(Tail(listing),
                 [i \in DOMAIN entered |->
                     IF entered[i].pilot = instructor
                     THEN [entered[i] EXCEPT !.flight_count = @ + 1,
                                             !.flight_time = @ + flight.flight_time,
                                             !.total_time = @ + flight.flight_time]
                     ELSE entered[i]])

RECURSIVE InstructorStatsGrounds(_, _)
\* The loop over the ground lessons, continuing the same dictionary.
InstructorStatsGrounds(listing, instructor_stats) ==
    IF listing = <<>> THEN instructor_stats
    ELSE LET ground == Head(listing)[1]
             instructor == ground.instructor
             known == \E i \in DOMAIN instructor_stats :
                          instructor_stats[i].pilot = instructor
             entered == IF known THEN instructor_stats
                        ELSE Append(instructor_stats, BlankInstructorStats(instructor))
         IN  InstructorStatsGrounds(Tail(listing),
                 [i \in DOMAIN entered |->
                     IF entered[i].pilot = instructor
                     THEN [entered[i] EXCEPT !.ground_count = @ + 1,
                                             !.ground_time = @ + ground.ground_time,
                                             !.total_time = @ + ground.ground_time]
                     ELSE entered[i]])

\* The sort key that counts the time in flight alone.
InstructorKeyFlightTime(entry) == <<entry.flight_time>>

\* key=lambda x: x['total_time']
InstructorKey(entry) == <<entry.total_time>>

InstructorLeaderboard(flightListing, groundListing, limit) ==
    LET instructor_stats ==
            InstructorStatsGrounds(groundListing,
                                   InstructorStatsFlights(flightListing, <<>>))
    IN  Truncate(SortedReverse(instructor_stats,
                     [i \in DOMAIN instructor_stats |-> InstructorKey(instructor_stats[i])]),
                 limit)

GetInstructorLeaderboard(pilot, limit) ==
    /\ \E flightListing \in Listings(FlightsInstructed(pilot)) :
       \E groundListing \in Listings(GroundsInstructed(pilot)) :
           call' = [fn |-> "get_instructor_leaderboard", pilot |-> pilot, limit |-> limit,
                    ret |-> InstructorLeaderboard(flightListing, groundListing, limit)]
    /\ UNCHANGED <<flights, sims, grounds, medicals, today>>

AddGround(g) ==
    /\ BagCardinality(grounds) < MaxGrounds
    /\ grounds' = grounds (+) SetToBag({g})
    /\ call' = NoCall
    /\ UNCHANGED <<flights, sims, medicals, today>>

NextInstructors ==
    \/ \E f \in InstructorFlights : AddFlight(f)
    \/ \E g \in SampleGrounds : AddGround(g)
    \/ \E limit \in 0..MaxLimit : GetInstructorLeaderboard(Owner, limit)

SpecInstructors == InitLedger({Ref}) /\ [][NextInstructors]_vars

(***************************************************************************)
(* get_unique_people_counts and get_people_role_distribution.              *)
(***************************************************************************)
\* <<passengers, instructor>> of a flight: alone, with passengers, with a
\* person of another role in the passenger list, with an instructor or an
\* examiner, with an instructor reference to a person of role Pilot, with
\* both a passenger and an instructor.
PeopleFlights ==
    {[BlankFlight EXCEPT !.passengers = p[1], !.instructor = p[2], !.flight_time = 10] :
        p \in
            {<<{}, None>>, <<{1}, None>>, <<{1, 2}, None>>, <<{5}, None>>, <<{3}, None>>,
             <<{}, Some(3)>>, <<{}, Some(4)>>, <<{}, Some(5)>>,
             <<{1}, Some(3)>>, <<{2}, Some(3)>>}}
    \cup {[BlankFlight EXCEPT !.pilot = Other, !.passengers = {2},
                              !.instructor = Some(4), !.flight_time = 10]}

\* has_passengers = flight.passengers.filter(role=PASSENGER).exists()
HasPassengers(flight) == PassengersAboard(flight) # {}

\* An instructor reference of any role.
HasInstructorAnyRole(flight) == ~IsNone(flight.instructor)

\* has_instructor = flight.instructor and flight.instructor.role in
\* [INSTRUCTOR, EXAMINER]
HasInstructor(flight) ==
    ~IsNone(flight.instructor) /\ IsInstructorRole(Val(flight.instructor))

PeopleRoleDistribution(pilot) ==
    LET fs == FlightsOf(pilot)
    IN  [solo_flights |->
             Cardinality({x \in fs : ~HasPassengers(x[1]) /\ ~HasInstructor(x[1])}),
         passenger_flights |-> Cardinality({x \in fs : HasPassengers(x[1])}),
         instruction_flights |-> Cardinality({x \in fs : HasInstructor(x[1])})]

\* The passenger count that counts a person once per flight.
CountPassengersPerFlight(fs) ==
    Cardinality(UNION {{<<x, p>> : p \in PassengersAboard(x[1])} : x \in fs})

\* len(unique_passengers): the keys added to the set over all flights.
CountPassengers(fs) == Cardinality(UNION {PassengersAboard(x[1]) : x \in fs})

UniquePeopleCounts(pilot) ==
    LET fs == FlightsOf(pilot)
        unique_passengers == UNION {PassengersAboard(x[1]) : x \in fs}
        unique_instructors ==
            {Val(x[1].instructor) : x \in {y \in fs : HasInstructor(y[1])}}
    IN  [unique_passengers |-> CountPassengers(fs),
         unique_instructors |-> Cardinality(unique_instructors),
         total_unique_people |-> Cardinality(unique_passengers \cup unique_instructors),
         total_interactions |->
             Cardinality({x \in fs : HasPassengers(x[1]) \/ ~IsNone(x[1].instructor)})]

GetPeopleRoleDistribution(pilot) ==
    /\ call' = [fn |-> "get_people_role_distribution", pilot |-> pilot,
                ret |-> PeopleRoleDistribution(pilot)]
    /\ UNCHANGED <<flights, sims, grounds, medicals, today>>

GetUniquePeopleCounts(pilot) ==
    /\ call' = [fn |-> "get_unique_people_counts", pilot |-> pilot,
                ret |-> UniquePeopleCounts(pilot)]
    /\ UNCHANGED <<flights, sims, grounds, medicals, today>>

NextPeople ==
    \/ \E f \in PeopleFlights : AddFlight(f)
    \/ GetPeopleRoleDistribution(Owner)
    \/ GetUniquePeopleCounts(Owner)

SpecPeople == InitLedger({Ref}) /\ [][NextPeople]_vars

(***************************************************************************)
(* get_instructor_time_progression.  A text is the sequence of its         *)
(* character codes, compared as Python compares strings.                   *)
(***************************************************************************)
\* date.strftime('%Y-%m-%d'), for a year of four digits: the decimal digits
\* as character codes, 45 being the hyphen.
StrfDate(d) ==
    LET TwoDigits(n) == <<48 + ((n \div 10) % 10), 48 + (n % 10)>>
        FourDigits(n) == TwoDigits(n \div 100) \o TwoDigits(n % 100)
    IN  FourDigits(d.year) \o <<45>> \o TwoDigits(d.month) \o <<45>> \o TwoDigits(d.day)

\* a < b for two texts
TextLT(a, b) ==
    \/ \E i \in 1..Min(Len(a), Len(b)) :
           a[i] < b[i] /\ \A j \in 1..(i - 1) : a[j] = b[j]
    \/ Len(a) < Len(b) /\ \A j \in 1..Len(a) : a[j] = b[j]

RECURSIVE SortedTexts(_)
\* sorted(set(...)) of texts
SortedTexts(texts) ==
    IF texts = {} THEN <<>>
    ELSE LET least == CHOOSE t \in texts : \A other \in texts : t = other \/ TextLT(t, other)
         IN  <<least>> \o SortedTexts(texts \ {least})

\* <<instructor, date, flight_time>> of a flight: an instructor and an
\* examiner on three dates whose order as texts needs the zero padding, a
\* longer flight, an instructor reference of role Pilot, a flight alone.
ProgressionFlights ==
    {[BlankFlight EXCEPT !.instructor = p[1], !.date = p[2], !.flight_time = p[3]] :
        p \in
            {<<Some(3), Date(2024, 12, 31), 10>>, <<Some(3), Date(2025, 2, 10), 10>>,
             <<Some(3), Date(2025, 10, 2), 10>>, <<Some(3), Date(2025, 2, 10), 25>>,
             <<Some(4), Date(2024, 12, 31), 10>>, <<Some(4), Date(2025, 2, 10), 10>>,
             <<Some(4), Date(2025, 10, 2), 10>>,
             <<Some(5), Date(2024, 12, 31), 10>>, <<None, Date(2025, 10, 2), 10>>}}
    \cup {[BlankFlight EXCEPT !.pilot = Other, !.instructor = Some(3),
                              !.date = Date(2024, 12, 31), !.flight_time = 10]}

RECURSIVE OrderByDate(_)
\* .order_by('date'): every listing of the rows in ascending date order (rows
\* of equal date in either order).
OrderByDate(rows) ==
    IF rows = {} THEN {<<>>}
    ELSE LET earliest == {x \in rows : \A y \in rows : DateLE(x[1].date, y[1].date)}
         IN  UNION {{<<x>> \o s : s \in OrderByDate(rows \ {x})} : x \in earliest}

RECURSIVE ProgressionData(_, _, _)
\* The loop over the flights: instructor_cumulative is the running total by
\* instructor key, progression_data the points recorded so far.
ProgressionData(listing, instructor_cumulative, progression_data) ==
    IF listing = <<>> THEN progression_data
    ELSE LET flight == Head(listing)[1]
             instructor_id == Val(flight.instructor)
             before == IF instructor_id \in DOMAIN instructor_cumulative
                       THEN instructor_cumulative[instructor_id] ELSE 0
             cumulative_time == before + flight.flight_time
         IN  ProgressionData(Tail(listing),
                 [k \in DOMAIN instructor_cumulative \cup {instructor_id} |->
                     IF k = instructor_id THEN cumulative_time
                     ELSE instructor_cumulative[k]],
                 Append(progression_data,
                        [date |-> StrfDate(flight.date),
                         instructor_id |-> instructor_id,
                         instructor_name |-> People[instructor_id].name,
                         cumulative_time |-> cumulative_time]))

\* A point counted up to a date only when it lies before that date.
IsUpToStrict(pointDate, date) == TextLT(pointDate, date)

\* d['date'] <= date
IsUpTo(pointDate, date) == pointDate = date \/ TextLT(pointDate, date)

RECURSIVE InstructorSeries(_, _, _)
\* The data of one instructor: for each of the dates in turn, the last point
\* of that instructor up to the date, when there is one.
InstructorSeries(instructor_id, progression_data, dates) ==
    IF dates = <<>> THEN <<>>
    ELSE LET date == Head(dates)
             instructor_data_up_to_date ==
                 SelectSeq(progression_data,
                           LAMBDA d : d.instructor_id = instructor_id /\ IsUpTo(d.date, date))
             latest == instructor_data_up_to_date[Len(instructor_data_up_to_date)]
         IN  (IF instructor_data_up_to_date # <<>>
              THEN <<[x |-> date, y |-> latest.cumulative_time]>>
              ELSE <<>>)
             \o InstructorSeries(instructor_id, progression_data, Tail(dates))

InstructorTimeProgression(listing) ==
    LET progression_data == ProgressionData(listing, <<>>, <<>>)
        ids == {progression_data[i].instructor_id : i \in DOMAIN progression_data}
        unique_dates ==
            SortedTexts({progression_data[i].date : i \in DOMAIN progression_data})
    IN  [instructors |->
             [k \in ids |-> [name |-> People[k].name,
                             data |-> InstructorSeries(k, progression_data, unique_dates)]],
         progression_data |-> progression_data]

GetInstructorTimeProgression(pilot) ==
    /\ \E listing \in OrderByDate(FlightsInstructed(pilot)) :
           call' = [fn |-> "get_instructor_time_progression", pilot |-> pilot,
                    ret |-> InstructorTimeProgression(listing)]
    /\ UNCHANGED <<flights, sims, grounds, medicals, today>>

NextProgression ==
    \/ \E f \in ProgressionFlights : AddFlight(f)
    \/ GetInstructorTimeProgression(Owner)

SpecProgression == InitLedger({Ref}) /\ [][NextProgression]_vars

(***************************************************************************)
(* The ranked lists side by side: get_passenger_leaderboard,               *)
(* get_instructor_leaderboard, get_aircraft_breakdown and                  *)
(* get_aircraft_type_statistics over one ledger.                           *)
(***************************************************************************)
\* <<passengers, instructor, plane, route, flight_time>> of a flight, all of
\* one date: two passengers, two instructors and two aircraft types that
\* can stand equal in their ranking keys.
RankedFlights ==
    {[BlankFlight EXCEPT !.passengers = p[1], !.instructor = p[2], !.plane = p[3],
                         !.route = p[4], !.flight_time = p[5]] : p \in
            {<<{1, 2}, Some(3), 1, 1, 10>>, <<{2}, Some(4), 2, 2, 10>>,
             <<{1}, None, 1, 2, 10>>, <<{}, Some(4), 3, 1, 20>>}}
    \cup {[BlankFlight EXCEPT !.pilot = Other, !.passengers = {1},
                              !.instructor = Some(3), !.flight_time = 50]}

NextRanked ==
    \/ \E f \in RankedFlights : AddFlight(f)
    \/ \E limit \in 0..MaxLimit : GetPassengerLeaderboard(Owner, limit)
    \/ \E limit \in 0..MaxLimit : GetInstructorLeaderboard(Owner, limit)
    \/ GetAircraftBreakdown(Owner)
    \/ GetAircraftTypeStatistics(Owner)

SpecRanked == InitLedger({Ref}) /\ [][NextRanked]_vars

(***************************************************************************)
(* get_recent_flights, get_days_since_last_flight and                      *)
(* get_cumulative_time_data.                                               *)
(***************************************************************************)
\* Flights of the timeline scenarios, as <<date, flight_time, pic_time,
\* flight_training_received, actual_instrument_time,
\* simulated_instrument_time, day_landings, day_fullstop_landings,
\* night_landings, night_fullstop_landings>>: two flights of one date, a
\* flight dated ahead of the clock, and a flight with every number at 0.
TimelineFlights ==
    {[BlankFlight EXCEPT !.date = p[1], !.flight_time = p[2], !.pic_time = p[3],
                         !.flight_training_received = p[4],
                         !.actual_instrument_time = p[5],
                         !.simulated_instrument_time = p[6],
                         !.day_landings = p[7], !.day_fullstop_landings = p[8],
                         !.night_landings = p[9], !.night_fullstop_landings = p[10]] :
        p \in
            {<<Date(2025, 1, 10), 12, 12, 0, 0, 0, 1, 2, 0, 0>>,
             <<Date(2025, 1, 10), 20, 0, 20, 5, 3, 0, 0, 1, 1>>,
             <<Date(2024, 12, 31), 15, 15, 0, 2, 0, 3, 0, 0, 2>>,
             <<Date(2025, 3, 5), 8, 0, 8, 0, 4, 0, 1, 0, 0>>,
             <<Date(2025, 2, 1), 0, 0, 0, 0, 0, 0, 0, 0, 0>>}}
    \cup {[BlankFlight EXCEPT !.pilot = Other, !.date = Date(2025, 2, 20),
                              !.flight_time = 30, !.pic_time = 30,
                              !.day_landings = 4]}

\* flight.total_day_landings = ..., flight.total_night_landings = ...: the
\* two attributes are set on the object built from the row.
WithLandingTotals(flight) ==
    flight @@ [total_day_landings |-> flight.day_landings + flight.day_fullstop_landings,
               total_night_landings |->
                   flight.night_landings + flight.night_fullstop_landings]

\* Every object written back to its table, as flight.save() would do.
SavedBack(table, objects) == SetToBag({objects[i] : i \in DOMAIN objects})

\* The function ends without a save(): the objects it built are given to the
\* caller, and the table holds the rows it held.
Unsaved(table, objects) == table

\* order_by('-date')[:limit], then the loop over the objects.
RecentFlightsWithTotals(order, limit) ==
    LET listed == Truncate(order, limit)
    IN  [i \in DOMAIN listed |-> WithLandingTotals(listed[i][1])]

GetRecentFlights(pilot, limit) ==
    /\ \E order \in OrderByDateDesc(FlightsOf(pilot)) :
           LET flights_with_totals == RecentFlightsWithTotals(order, limit)
           IN  /\ call' = [fn |-> "get_recent_flights", pilot |-> pilot,
                           limit |-> limit, ret |-> flights_with_totals]
               /\ flights' = Unsaved(flights, flights_with_totals)
    /\ UNCHANGED <<sims, grounds, medicals, today>>

\* order_by('-date').first() is a flight of the latest date; the difference
\* in days is the same for each of them.
DaysSinceLastFlight(pilot, now) ==
    IF FlightsOf(pilot) = {} THEN None
    ELSE LET last_flight ==
                 CHOOSE x \in FlightsOf(pilot) :
                     \A y \in FlightsOf(pilot) : DateLE(y[1].date, x[1].date)
         IN  Some(DaysBetween(now, last_flight[1].date))

GetDaysSinceLastFlight(pilot) ==
    /\ call' = [fn |-> "get_days_since_last_flight", pilot |-> pilot, now |-> today,
                ret |-> DaysSinceLastFlight(pilot, today)]
    /\ UNCHANGED <<flights, sims, grounds, medicals, today>>

RECURSIVE CumulativeTimeDataPerFlight(_, _, _)
\* Each point carrying the hours of its own flight only.
CumulativeTimeDataPerFlight(listing, running, cumulative_data) ==
    IF listing = <<>> THEN cumulative_data
    ELSE LET flight == Head(listing)[1]
             next == [total |-> flight.flight_time,
                      pic |-> flight.pic_time,
                      dual |-> flight.flight_training_received,
                      instrument |-> flight.actual_instrument_time
                                     + flight.simulated_instrument_time]
         IN  CumulativeTimeDataPerFlight(Tail(listing), next,
                 Append(cumulative_data,
                        [date |-> StrfDate(flight.date), total |-> next.total,
                         pic |-> next.pic, dual |-> next.dual,
                         instrument |-> next.instrument]))

RECURSIVE CumulativeTimeData(_, _, _)
\* The loop over the flights in ascending date order: running holds total,
\* pic, dual and instrument, in tenths of an hour (round(x, 1) of a sum of
\* values with one decimal place is that sum).
CumulativeTimeData(listing, running, cumulative_data) ==
    IF listing = <<>> THEN cumulative_data
    ELSE LET flight == Head(listing)[1]
             next == [total |-> running.total + flight.flight_time,
                      pic |-> running.pic + flight.pic_time,
                      dual |-> running.dual + flight.flight_training_received,
                      instrument |-> running.instrument
                                     + (flight.actual_instrument_time
                                        + flight.simulated_instrument_time)]
         IN  CumulativeTimeData(Tail(listing), next,
                 Append(cumulative_data,
                        [date |-> StrfDate(flight.date), total |-> next.total,
                         pic |-> next.pic, dual |-> next.dual,
                         instrument |-> next.instrument]))

GetCumulativeTimeData(pilot) ==
    /\ \E listing \in OrderByDate(FlightsOf(pilot)) :
           call' = [fn |-> "get_cumulative_time_data", pilot |-> pilot,
                    ret |-> CumulativeTimeData(listing,
                                [total |-> 0, pic |-> 0, dual |-> 0, instrument |-> 0],
                                <<>>)]
    /\ UNCHANGED <<flights, sims, grounds, medicals, today>>

NextTimeline ==
    \/ \E f \in TimelineFlights : AddFlight(f)
    \/ \E limit \in 0..MaxLimit : GetRecentFlights(Owner, limit)
    \/ GetDaysSinceLastFlight(Owner)
    \/ GetCumulativeTimeData(Owner)
    \/ GetTotalTimes(Owner)

SpecTimeline == InitLedger({Ref}) /\ [][NextTimeline]_vars

(***************************************************************************)
(* get_people_insights                                                     *)
(***************************************************************************)
\* <<passengers, instructor, flight_time>> of a flight: passengers alone and
\* together, an instructed flight with a passenger, an examiner, a person
\* of role Pilot as passenger and as instructor, a flight alone.
InsightFlights ==
    {[BlankFlight EXCEPT !.passengers = p[1], !.instructor = p[2], !.flight_time = p[3]] :
        p \in
            {<<{1}, None, 10>>, <<{1, 2}, None, 10>>, <<{2}, Some(3), 30>>,
             <<{}, Some(4), 20>>, <<{5}, Some(5), 10>>, <<{}, None, 10>>}}
    \cup {[BlankFlight EXCEPT !.pilot = Other, !.passengers = {1},
                              !.instructor = Some(3), !.flight_time = 10]}

\* The percentage cut to the tenth below instead of rounded.
InsightPercentageTruncated(part, whole) ==
    IF whole > 0 THEN {(part * 1000) \div whole} ELSE {0}

\* round((part / whole * 100) if whole > 0 else 0, 1), in tenths of a
\* percent: the values the rounding can give.
InsightPercentage(part, whole) ==
    IF whole > 0 THEN RoundToTenth(part * 1000, whole) ELSE {0}

\* The dictionaries get_people_insights can return from the two leaderboards
\* it has asked for with limit=1.
PeopleInsights(pilot, passenger_leaderboard, instructor_leaderboard) ==
    LET fs == FlightsOf(pilot)
        total_flights == Cardinality(fs)
        flights_with_passengers == Cardinality({x \in fs : HasPassengers(x[1])})
        flights_with_instruction == Cardinality({x \in fs : HasInstructor(x[1])})
        \* leaderboard[0] if leaderboard else None, then entry['percentage'] = ...
        Annotated(leaderboard, qualifying) ==
            IF leaderboard = <<>> THEN {None}
            ELSE {Some(leaderboard[1] @@ [percentage |-> pc]) :
                    pc \in InsightPercentage(leaderboard[1].flight_count, qualifying)}
    IN  {[most_frequent_passenger |-> mp,
          most_frequent_instructor |-> mi,
          passenger_flight_percentage |-> pp,
          instruction_flight_percentage |-> ip] :
            mp \in Annotated(passenger_leaderboard, flights_with_passengers),
            mi \in Annotated(instructor_leaderboard, flights_with_instruction),
            pp \in InsightPercentage(flights_with_passengers, total_flights),
            ip \in InsightPercentage(flights_with_instruction, total_flights)}

GetPeopleInsights(pilot) ==
    /\ \E passenger_leaderboard \in
              {PassengerLeaderboard(listing, order, 1) :
                  listing \in Listings(FlightsOf(pilot)),
                  order \in Listings(UNION {PassengersAboard(x[1]) : x \in FlightsOf(pilot)})},
          instructor_leaderboard \in
              {InstructorLeaderboard(flightListing, groundListing, 1) :
                  flightListing \in Listings(FlightsInstructed(pilot)),
                  groundListing \in Listings(GroundsInstructed(pilot))} :
           \E insights \in PeopleInsights(pilot, passenger_leaderboard,
                                          instructor_leaderboard) :
               call' = [fn |-> "get_people_insights", pilot |-> pilot, ret |-> insights]
    /\ UNCHANGED <<flights, sims, grounds, medicals, today>>

NextInsights ==
    \/ \E f \in InsightFlights : AddFlight(f)
    \/ \E g \in SampleGrounds : AddGround(g)
    \/ GetPeopleInsights(Owner)

SpecInsights == InitLedger({Ref}) /\ [][NextInsights]_vars

(***************************************************************************)
(* days_until_currency_expires, and the currency as the days pass.         *)
(***************************************************************************)
\* The number of days the clock moves on from Ref.
MaxClockDays == 3

\* Flights dated 90 and 89 days before Ref (they leave the window on the
\* first and on the second day after Ref) and 2 days after Ref; l is
\* <<day_landings, night_fullstop_landings>>.
ClockFlights ==
    {[BlankFlight EXCEPT !.date = d, !.day_landings = l[1],
                         !.night_fullstop_landings = l[2]] :
        d \in {AddDays(Ref, -90), AddDays(Ref, -89), AddDays(Ref, 2)},
        l \in {<<3, 0>>, <<1, 3>>}}
    \cup {[BlankFlight EXCEPT !.pilot = Other, !.date = Ref, !.day_landings = 3,
                              !.night_fullstop_landings = 3]}

\* The values a caller passes as currency_type: the two the function knows
\* and another one.
CurrencyTypes == {"day", "night", "ifr"}

\* Days left with the expiry itself not counted.
DaysUntilCurrencyExpiresExclusive(currency, currency_type, now) ==
    IF currency_type = "day"
    THEN (IF ~currency.day_current THEN None
          ELSE IF ~IsNone(currency.day_expiry)
          THEN Some(DaysBetween(Val(currency.day_expiry), now) - 1)
          ELSE None)
    ELSE IF currency_type = "night"
    THEN (IF ~currency.night_current THEN None
          ELSE IF ~IsNone(currency.night_expiry)
          THEN Some(DaysBetween(Val(currency.night_expiry), now) - 1)
          ELSE None)
    ELSE None

\* The body after currency = check_passenger_currency(pilot); now is the
\* date read by datetime.now().date() in the return statement.
DaysUntilCurrencyExpires(currency, currency_type, now) ==
    IF currency_type = "day"
    THEN (IF ~currency.day_current THEN None
          ELSE IF ~IsNone(currency.day_expiry)
          THEN Some(DaysBetween(Val(currency.day_expiry), now))
          ELSE None)
    ELSE IF currency_type = "night"
    THEN (IF ~currency.night_current THEN None
          ELSE IF ~IsNone(currency.night_expiry)
          THEN Some(DaysBetween(Val(currency.night_expiry), now))
          ELSE None)
    ELSE None

\* The clock is read twice, by check_passenger_currency and in the return
\* statement; midnight may pass between the two reads.
GetDaysUntilCurrencyExpires(pilot, currency_type) ==
    /\ \E dayOrder \in OrderByDateDesc(LandingFlights(pilot, "day_landings")),
          nightOrder \in OrderByDateDesc(LandingFlights(pilot, "night_fullstop_landings")),
          now \in {today, AddDays(today, 1)} :
            LET currency == PassengerCurrency(pilot, today, dayOrder, nightOrder)
            IN  call' = [fn |-> "days_until_currency_expires", pilot |-> pilot,
                         currency_type |-> currency_type, reads |-> <<today, now>>,
                         currency |-> currency,
                         ret |-> DaysUntilCurrencyExpires(currency, currency_type, now)]
    /\ UNCHANGED <<flights, sims, grounds, medicals, today>>

\* The calendar date moves on to one of the later dates; the ledger and the
\* result of the last call stay as they are.
AdvanceClock(later) ==
    /\ today' \in {d \in later : DateLT(today, d)}
    /\ UNCHANGED <<flights, sims, grounds, medicals, call>>

NextClock ==
    \/ \E f \in ClockFlights : AddFlight(f)
    \/ AdvanceClock({AddDays(today, 1)} \cap {AddDays(Ref, n) : n \in 1..MaxClockDays})
    \/ CheckPassengerCurrency(Owner)
    \/ \E currency_type \in CurrencyTypes : GetDaysUntilCurrencyExpires(Owner, currency_type)

SpecClock == InitLedger({Ref}) /\ [][NextClock]_vars

(***************************************************************************)
(* The medical as the days pass: examinations of January 2024 and January  *)
(* 2020, the clock at the end of January 2025 (the last day of the first   *)
(* and second class of the one, of the third class of the other), then on  *)
(* the next day, and on the last day of January 2029 and the day after it. *)
(***************************************************************************)
NextMedicalClock ==
    \/ \E m \in {x \in SampleMedicals :
                    \/ x.examination_date \in {Date(2024, 1, 15), Date(2020, 1, 31)}
                    \/ x.pilot = Other} : AddMedical(m)
    \/ AdvanceClock({Date(2025, 2, 1), Date(2029, 1, 31), Date(2029, 2, 1)})
    \/ CheckMedicalStatus(Owner)

SpecMedicalClock == InitLedger({Date(2025, 1, 31)}) /\ [][NextMedicalClock]_vars

(***************************************************************************)
(* The engine as a whole: every function, called for either pilot, over a  *)
(* ledger in which all rows belong to the owner.                           *)
(***************************************************************************)
NextEngine ==
    \/ \E f \in {x \in TimelineFlights : x.pilot = Owner /\ x.pic_time = 12} :
           AddFlight(f)
    \/ \E x \in {y \in SampleSims :
                    y.pilot = Owner /\ y.simulated_instrument_time = 3} : AddSim(x)
    \/ \E g \in {h \in SampleGrounds : h.pilot = Owner /\ h.instructor = 3} : AddGround(g)
    \/ \E m \in {n \in SampleMedicals :
                    /\ n.pilot = Owner /\ n.classNumber = 1
                    /\ n.examination_date = Date(2024, 2, 29)} : AddMedical(m)
    \/ \E p \in PilotIds : CheckPassengerCurrency(p)
    \/ \E p \in PilotIds, t \in {"day", "night"} : GetDaysUntilCurrencyExpires(p, t)
    \/ \E p \in PilotIds : CheckMedicalStatus(p)
    \/ \E p \in PilotIds : GetMonthlyBreakdown(p, DefaultMonths)
    \/ \E p \in PilotIds : GetInstrumentRatingProgress(p)
    \/ \E p \in PilotIds : GetTotalTimes(p)
    \/ \E p \in PilotIds : GetXcPicTime(p)
    \/ \E p \in PilotIds : GetCommercialLicenseProgress(p)
    \/ \E p \in PilotIds : GetAircraftBreakdown(p)
    \/ \E p \in PilotIds : GetAircraftHighlights(p)
    \/ \E p \in PilotIds : GetAircraftClassBreakdown(p)
    \/ \E p \in PilotIds : GetAircraftTypeStatistics(p)
    \/ \E p \in PilotIds, limit \in 1..MaxLimit : GetPassengerLeaderboard(p, limit)
    \/ \E p \in PilotIds, limit \in 1..MaxLimit : GetInstructorLeaderboard(p, limit)
    \/ \E p \in PilotIds : GetPeopleRoleDistribution(p)
    \/ \E p \in PilotIds : GetUniquePeopleCounts(p)
    \/ \E p \in PilotIds : GetPeopleInsights(p)
    \/ \E p \in PilotIds : GetInstructorTimeProgression(p)
    \/ \E p \in PilotIds, limit \in 1..MaxLimit : GetRecentFlights(p, limit)
    \/ \E p \in PilotIds : GetDaysSinceLastFlight(p)
    \/ \E p \in PilotIds : GetCumulativeTimeData(p)

SpecEngine == InitLedger({Ref}) /\ [][NextEngine]_vars

(***************************************************************************)
(* Claims on check_passenger_currency.                                     *)
(***************************************************************************)
IsCurrencyCall == call.fn = "check_passenger_currency"

\* The pilot's flights dated within [as_of - 90 days, as_of], both ends included.
WindowFlights(pilot, as_of) ==
    {x \in FlightsOf(pilot) :
        /\ ToOrdinal(as_of) - 90 <= ToOrdinal(x[1].date)
        /\ ToOrdinal(x[1].date) <= ToOrdinal(as_of)}

\* C1: the reported day landing count is the sum of day_landings over exactly
\* the pilot's flights dated within [as_of - 90 days, as_of], and the reported
\* night count is the sum of night_fullstop_landings over the same flights; a
\* flight dated after as_of contributes nothing.
C1_CountsOverWindow ==
    IsCurrencyCall =>
        /\ call.ret.day_landings =
              SumOver(WindowFlights(call.pilot, call.now), "day_landings")
        /\ call.ret.night_landings =
              SumOver(WindowFlights(call.pilot, call.now), "night_fullstop_landings")

\* The flights of the pilot are exactly three, dated 95, 70 and 40 days before
\* as_of, with one day landing each.
ThreeSpreadLandings(pilot, as_of) ==
    /\ Cardinality(FlightsOf(pilot)) = 3
    /\ \A x \in FlightsOf(pilot) : x[1].day_landings = 1
    /\ {DaysBetween(as_of, x[1].date) : x \in FlightsOf(pilot)} = {95, 70, 40}

\* C2: day_current is true exactly when the reported day landing count is at
\* least 3, night_current exactly when the reported night full-stop count is
\* at least 3; with one day landing on each of the days 95, 70 and 40 before
\* as_of the count is 2 and day_current is false.
C2_CurrentIffThree ==
    IsCurrencyCall =>
        /\ call.ret.day_current <=> call.ret.day_landings >= 3
        /\ call.ret.night_current <=> call.ret.night_landings >= 3
        /\ ThreeSpreadLandings(call.pilot, call.now) =>
              call.ret.day_landings = 2 /\ ~call.ret.day_current

C2_Witness ==
    /\ IsCurrencyCall
    /\ ThreeSpreadLandings(call.pilot, call.now)
    /\ call.ret.day_landings = 2
    /\ ~call.ret.day_current

\* The landings of the pilot's flights dated on or after d (strictly after
\* when strict).
LandingsSince(pilot, field, d, strict) ==
    SumOver({x \in FlightsOf(pilot) :
                IF strict THEN DateLT(d, x[1].date) ELSE DateLE(d, x[1].date)}, field)

\* The date on which the landings counted back from the latest flight reach 3,
\* plus 90 days; None when the pilot has fewer than 3 such landings in all.
ThirdLandingExpiry(pilot, field) ==
    LET ds == {x[1].date : x \in {y \in FlightsOf(pilot) : y[1][field] > 0}}
        hit == {d \in ds : /\ LandingsSince(pilot, field, d, TRUE) < 3
                           /\ LandingsSince(pilot, field, d, FALSE) >= 3}
    IN  IF hit = {} THEN None
        ELSE Some(AddDays(CHOOSE d \in hit : TRUE, 90))

\* C3: day_expiry is the date of the first flight, in descending date order,
\* at which the accumulated day_landings reach 3, plus 90 days, whatever the
\* 90-day window and whatever the order of flights sharing a date; it is null
\* exactly when the pilot has fewer than 3 day landings in all.  The same for
\* night_expiry with night_fullstop_landings.
C3_ExpiryFromThirdLanding ==
    IsCurrencyCall =>
        /\ call.ret.day_expiry = ThirdLandingExpiry(call.pilot, "day_landings")
        /\ call.ret.night_expiry =
              ThirdLandingExpiry(call.pilot, "night_fullstop_landings")
        /\ IsNone(call.ret.day_expiry) <=>
              SumOver(FlightsOf(call.pilot), "day_landings") < 3
        /\ IsNone(call.ret.night_expiry) <=>
              SumOver(FlightsOf(call.pilot), "night_fullstop_landings") < 3

\* The expiry was fixed by a date that two flights with day landings share,
\* older than the 90-day window, with the third landing reached only there.
C3_Witness ==
    /\ IsCurrencyCall
    /\ ~IsNone(call.ret.day_expiry)
    /\ \E x, y \in FlightsOf(call.pilot) :
          /\ x # y
          /\ x[1].date = y[1].date
          /\ x[1].day_landings = 1 /\ y[1].day_landings = 2
          /\ Val(call.ret.day_expiry) = AddDays(x[1].date, 90)
          /\ DateLT(x[1].date, AddDays(call.now, -90))
          /\ LandingsSince(call.pilot, "day_landings", x[1].date, TRUE) > 0

(***************************************************************************)
(* Claims on Medical and check_medical_status.                             *)
(***************************************************************************)
IsMedicalCall == call.fn = "check_medical_status"

\* The call returned the status of a medical record.
HasMedical == IsMedicalCall /\ ~call.raised /\ Val(call.ret).has_medical

\* The last day of a calendar month.
LastDayOfMonth(y, m) == Date(y, m, DaysInMonth(y, m))

\* C4: for a medical examined in month M of year Y, first_class_expiry (class
\* 1 only, else null) and second_class_expiry (classes 1 and 2 only, else
\* null) are the last day of month M of year Y+1 and third_class_expiry is the
\* last day of month M of year Y+5, whatever the day of the examination; a
\* class-1 medical examined 2024-01-15 gives 2025-01-31 and 2029-01-31.
C4_ExpiriesAtMonthEnd ==
    HasMedical =>
        LET r == Val(call.ret)
            c == Val(r.original_class)
            e == Val(r.examination_date)
        IN  /\ r.first_class_expiry =
                  (IF c = 1 THEN Some(LastDayOfMonth(e.year + 1, e.month)) ELSE None)
            /\ r.second_class_expiry =
                  (IF c \in {1, 2} THEN Some(LastDayOfMonth(e.year + 1, e.month))
                   ELSE None)
            /\ r.third_class_expiry = Some(LastDayOfMonth(e.year + 5, e.month))
            /\ (c = 1 /\ e = Date(2024, 1, 15)) =>
                  /\ r.first_class_expiry = Some(Date(2025, 1, 31))
                  /\ r.second_class_expiry = Some(Date(2025, 1, 31))
                  /\ r.third_class_expiry = Some(Date(2029, 1, 31))

C4_Witness ==
    /\ HasMedical
    /\ Val(call.ret).original_class = Some(1)
    /\ Val(call.ret).examination_date = Some(Date(2024, 1, 15))
    /\ Val(call.ret).first_class_expiry = Some(Date(2025, 1, 31))
    /\ Val(call.ret).third_class_expiry = Some(Date(2029, 1, 31))

\* The expiry field of a result for privilege class k.
ClassExpiry(r, k) ==
    IF k = 1 THEN r.first_class_expiry
    ELSE IF k = 2 THEN r.second_class_expiry
    ELSE r.third_class_expiry

\* The privilege classes a certificate issued as class c grants whose expiry
\* is on or after as_of.
ValidClasses(r, as_of) ==
    {k \in Val(r.original_class)..3 : DateLE(as_of, Val(ClassExpiry(r, k)))}

\* C5: the record used has the latest examination_date among the pilot's
\* medicals, and current_class is the highest privilege class (1 above 2 above
\* 3) among those the issued class grants whose expiry is on or after as_of,
\* null when there is none; a class-1 medical examined 2024-01-15 has
\* current_class 3 on 2025-02-01.
C5_HighestValidClass ==
    HasMedical =>
        LET r == Val(call.ret)
            c == Val(r.original_class)
            e == Val(r.examination_date)
            as_of == call.reads[1]
            valid == ValidClasses(r, as_of)
        IN  /\ \E x \in MedicalsOf(call.pilot) :
                  /\ x[1].classNumber = c
                  /\ x[1].examination_date = e
            /\ \A z \in MedicalsOf(call.pilot) : DateLE(z[1].examination_date, e)
            /\ r.current_class =
                  (IF valid = {} THEN None
                   ELSE Some(CHOOSE k \in valid : \A j \in valid : k <= j))
            /\ (c = 1 /\ e = Date(2024, 1, 15) /\ as_of = Date(2025, 2, 1)) =>
                  r.current_class = Some(3)

\* The example, with an older medical of a lower class in the ledger as well.
C5_Witness ==
    /\ HasMedical
    /\ Val(call.ret).original_class = Some(1)
    /\ Val(call.ret).examination_date = Some(Date(2024, 1, 15))
    /\ call.reads[1] = Date(2025, 2, 1)
    /\ Val(call.ret).current_class = Some(3)
    /\ \E z \in MedicalsOf(call.pilot) :
          z[1].examination_date = Date(2023, 12, 31) /\ z[1].classNumber = 3

\* The call read the same date as_of at each of its reads of the clock.
SingleAsOf == call.reads[1] = call.reads[2] /\ call.reads[2] = call.reads[3]

\* C6: with a medical, evaluated at the date as_of: status is "expired" when
\* no privilege level is valid; otherwise days_remaining is the expiry of the
\* current privilege level minus as_of, and status is "critical" below 30,
\* "warning" from 30 to 59, "current" from 60.
C6_StatusBuckets ==
    (HasMedical /\ SingleAsOf) =>
        LET r == Val(call.ret)
            as_of == call.reads[1]
        IN  IF IsNone(r.current_class)
            THEN r.status = "expired"
            ELSE LET dr == DaysBetween(Val(ClassExpiry(r, Val(r.current_class))), as_of)
                 IN  /\ r.days_remaining = Some(dr)
                     /\ dr < 30 => r.status = "critical"
                     /\ (30 <= dr /\ dr < 60) => r.status = "warning"
                     /\ dr >= 60 => r.status = "current"

\* Exactly 30 days remain: the first value of the "warning" bucket.
C6_Witness ==
    /\ HasMedical
    /\ SingleAsOf
    /\ Val(call.ret).days_remaining = Some(30)
    /\ Val(call.ret).status = "warning"

\* C7: check_medical_status never raises: without a medical record, or when
\* an error occurs while the medical data is read or evaluated, it returns
\* status "none", has_medical false and every other field null.
C7_FailSoft ==
    IsMedicalCall =>
        /\ ~call.raised
        /\ (MedicalsOf(call.pilot) = {} \/ call.fault # "none") =>
              /\ ~IsNone(call.ret)
              /\ Val(call.ret).status = "none"
              /\ Val(call.ret).has_medical = FALSE
              /\ \A f \in {"original_class", "current_class", "examination_date",
                            "expiry", "first_class_expiry", "second_class_expiry",
                            "third_class_expiry", "days_remaining"} :
                    IsNone(Val(call.ret)[f])

\* An error while a record that exists is evaluated.
C7_Witness ==
    /\ IsMedicalCall
    /\ MedicalsOf(call.pilot) # {}
    /\ call.fault = "evaluate"
    /\ ~call.raised
    /\ Val(call.ret).status = "none"

(***************************************************************************)
(* Claims on get_monthly_breakdown.                                        *)
(***************************************************************************)
IsMonthlyCall == call.fn = "get_monthly_breakdown"

\* Calendar months counted from year 0: the number of the month of a date.
MonthIndex(d) == d.year * 12 + (d.month - 1)

\* The pilot's flights dated in the calendar month numbered k.
FlightsInMonth(pilot, k) == {x \in FlightsOf(pilot) : MonthIndex(x[1].date) = k}

\* The month a label "Mon YYYY" names.
LabelIndex(label) ==
    label[2] * 12 + (CHOOSE m \in 1..12 : MonthAbbr[m] = label[1]) - 1

RECURSIVE SumHours(_, _)
\* The sum of the hours of the first n entries.
SumHours(entries, n) ==
    IF n = 0 THEN 0 ELSE entries[n].hours + SumHours(entries, n - 1)

\* C8: monthly_breakdown(months=N), N >= 1, returns exactly N entries, for N
\* consecutive calendar months in ascending order, the last being the month
\* of the current date; a month without a flight is present with hours 0.
C8_MonthlyEntries ==
    IsMonthlyCall =>
        LET n == call.months
            last == MonthIndex(call.now)
        IN  /\ Len(call.ret) = n
            /\ \A i \in 1..Len(call.ret) :
                  /\ LabelIndex(call.ret[i].month) = last - (n - i)
                  /\ FlightsInMonth(call.pilot, last - (n - i)) = {} =>
                        call.ret[i].hours = 0

\* Twelve entries, a flight in the first month and none in the last three.
C8_Witness ==
    /\ IsMonthlyCall
    /\ call.months = 12
    /\ Len(call.ret) = 12
    /\ call.now = Date(2025, 3, 31)
    /\ call.ret[1].month = <<"Apr", 2024>>
    /\ call.ret[1].hours > 0
    /\ call.ret[12].month = <<"Mar", 2025>>
    /\ call.ret[12].hours = 0
    /\ call.ret[11].hours = 0

\* C9: the hours of the 12 entries of monthly_breakdown(pilot, 12) add up to
\* the sum of flight_time over the pilot's flights dated within those 12
\* calendar months, and each such flight is counted in the entry of its own
\* month and in no other.
C9_MonthlyAdditive ==
    (IsMonthlyCall /\ call.months = DefaultMonths) =>
        LET last == MonthIndex(call.now)
            first == last - (DefaultMonths - 1)
            inWindow == {x \in FlightsOf(call.pilot) :
                            /\ first <= MonthIndex(x[1].date)
                            /\ MonthIndex(x[1].date) <= last}
        IN  /\ Len(call.ret) = DefaultMonths
            /\ SumHours(call.ret, Len(call.ret)) = SumOver(inWindow, "flight_time")
            /\ \A i \in 1..Len(call.ret) :
                  call.ret[i].hours =
                      SumOver(FlightsInMonth(call.pilot, first + (i - 1)), "flight_time")

\* Two flights of one month on different days, one flight before the window
\* and one in a month after the current one.
C9_Witness ==
    /\ IsMonthlyCall
    /\ call.months = DefaultMonths
    /\ call.now = Date(2025, 3, 31)
    /\ call.ret[1].hours = 17
    /\ SumHours(call.ret, Len(call.ret)) = 17
    /\ \E x, y \in FlightsOf(call.pilot) :
          /\ x[1].date = Date(2024, 4, 1) /\ y[1].date = Date(2024, 4, 30)
    /\ \E z \in FlightsOf(call.pilot) :
          z[1].date \in {Date(2024, 3, 31), Date(2025, 4, 1)}

(***************************************************************************)
(* Claims on get_instrument_rating_progress.                               *)
(***************************************************************************)
IsInstrumentCall == call.fn = "get_instrument_rating_progress"

\* actual + flight simulated + min(simulator-session simulated, 20 h), in tenths.
CreditableHours(pilot) ==
    SumOver(FlightsOf(pilot), "actual_instrument_time")
        + SumOver(FlightsOf(pilot), "simulated_instrument_time")
        + Min(SumOver(SimsOf(pilot), "simulated_instrument_time"), 200)

\* creditable_total and remaining as C10 states them.
CreditAndRemaining ==
    /\ call.ret.creditable_total = CreditableHours(call.pilot)
    /\ call.ret.remaining = Max(0, 400 - call.ret.creditable_total)

\* C10 as stated: creditable_total = actual + flight simulated +
\* min(simulator simulated, 20), remaining = max(0, 40 - creditable_total)
\* exactly, and percentage = min(100, creditable_total / 40 * 100).  In tenths
\* of a percent and tenths of an hour: 2 * percentage = min(2000, 5 * total).
C10_AsStated ==
    IsInstrumentCall =>
        /\ CreditAndRemaining
        /\ 2 * call.ret.percentage = Min(2000, 5 * call.ret.creditable_total)

\* C10 amended: creditable_total and remaining as stated; percentage is
\* min(100, creditable_total / 40 * 100) rounded to one decimal place, so it
\* is within 0.05 of that value.
C10_PercentageRounded ==
    IsInstrumentCall =>
        /\ CreditAndRemaining
        /\ 2 * call.ret.percentage - Min(2000, 5 * call.ret.creditable_total) \in -1..1
        /\ call.ret.percentage \in 0..1000

\* Simulator sessions beyond 20 hours, uncapped flight simulated time, and a
\* creditable total above 40 hours.
C10_Witness ==
    /\ IsInstrumentCall
    /\ call.ret.simulator_simulated > 200
    /\ call.ret.flight_simulated > 200
    /\ call.ret.creditable_total > 400
    /\ call.ret.creditable_total = call.ret.actual + call.ret.flight_simulated + 200
    /\ call.ret.remaining = 0
    /\ call.ret.percentage = 1000


(***************************************************************************)
(* Claims on get_commercial_license_progress and get_xc_pic_time.          *)
(***************************************************************************)
IsCommercialCall == call.fn = "get_commercial_license_progress"

RECURSIVE SumBy(_, _)
\* The sum of val[x] over the rows x, for a function val on the rows.
SumBy(rows, val) ==
    IF rows = {} THEN 0
    ELSE LET x == CHOOSE x \in rows : TRUE
         IN  val[x] + SumBy(rows \ {x}, val)

\* What one flight adds to the cross-country PIC time: nothing without PIC
\* time or without cross-country time, else its whole cross-country time.
XcPicContribution(f) == IF f.pic_time = 0 \/ f.xc_time = 0 THEN 0 ELSE f.xc_time

\* The three bars: <<name, current hours in tenths, required hours>>.
CommercialBars ==
    LET fs == FlightsOf(call.pilot)
    IN  {<<"total_time", SumBy(fs, [x \in fs |-> x[1].flight_time]), 250>>,
         <<"pic_time", SumBy(fs, [x \in fs |-> x[1].pic_time]), 100>>,
         <<"xc_pic_time", SumBy(fs, [x \in fs |-> XcPicContribution(x[1])]), 50>>}

\* C11: the commercial progress has three bars (total time against 250
\* hours, PIC time against 100, cross-country PIC time against 50); each
\* reports its fixed required value, remaining = max(0, required - current)
\* and percentage = min(100, current / required * 100) (hundredths of a
\* percent here); remaining is never negative, the percentage lies within
\* 0..100, and remaining is 0 exactly when the percentage is 100.
C11_CommercialBars ==
    IsCommercialCall =>
        /\ DOMAIN call.ret = {"total_time", "pic_time", "xc_pic_time"}
        /\ \A b \in CommercialBars :
            LET bar == call.ret[b[1]]
                required == b[3] * 10
            IN  /\ bar.current = b[2]
                /\ bar.required = required
                /\ bar.remaining = (IF b[2] >= required THEN 0 ELSE required - b[2])
                /\ bar.percentage * required
                     = (IF b[2] >= required THEN required ELSE b[2]) * 100 * 100
                /\ bar.remaining >= 0
                /\ bar.percentage >= 0 /\ bar.percentage <= 100 * 100
                /\ (bar.remaining = 0) <=> (bar.percentage = 100 * 100)

\* A call with the total-time bar passed (current above 250 hours), the PIC
\* bar exactly full and the cross-country PIC bar a tenth short.
C11_Witness ==
    /\ IsCommercialCall
    /\ call.ret.total_time.current > 2500 /\ call.ret.total_time.remaining = 0
    /\ call.ret.pic_time.current = 1000 /\ call.ret.pic_time.percentage = 100 * 100
    /\ call.ret.xc_pic_time.remaining = 1 /\ call.ret.xc_pic_time.percentage = 9980

\* C12: xc_pic_time is the sum of xc_time over the pilot's flights with both
\* xc_time > 0 and pic_time > 0: a flight with cross-country time and no PIC
\* time adds nothing, a qualifying flight adds its whole xc_time even when
\* its pic_time is smaller.
C12_XcPicTime ==
    call.fn = "get_xc_pic_time" =>
        call.ret = SumBy(FlightsOf(call.pilot),
                         [x \in FlightsOf(call.pilot) |-> XcPicContribution(x[1])])

\* A call over a flight with cross-country time and no PIC time and a flight
\* whose PIC time is below its cross-country time.
C12_Witness ==
    /\ call.fn = "get_xc_pic_time"
    /\ \E x \in FlightsOf(call.pilot) : x[1].xc_time > 0 /\ x[1].pic_time = 0
    /\ \E x \in FlightsOf(call.pilot) :
           x[1].pic_time > 0 /\ x[1].pic_time < x[1].xc_time
    /\ call.ret > 0


(***************************************************************************)
(* Claims on get_aircraft_breakdown and get_aircraft_class_breakdown.      *)
(***************************************************************************)
IsAircraftCall == call.fn = "get_aircraft_breakdown"

\* The Plane records the pilot has flown.
PlanesFlown == {x[1].plane : x \in FlightsOf(call.pilot)}
FlightsOn(plane) == {x \in FlightsOf(call.pilot) : x[1].plane = plane}
LatestOn(plane) ==
    {x \in FlightsOn(plane) : \A y \in FlightsOn(plane) : DateLE(y[1].date, x[1].date)}

\* Entry en stands for the Plane record: its name, the sum of the flight
\* times on it, and the first waypoint of the route of a latest-dated flight.
EntryOfPlane(en, plane) ==
    /\ en.tail_number = Planes[plane].tail_number
    /\ en.hours = SumOver(FlightsOn(plane), "flight_time")
    /\ \E x \in LatestOn(plane) :
           en.location = (IF Routes[x[1].route] = <<>> THEN None
                          ELSE Some(Head(Routes[x[1].route])))

\* C13: aircraft_breakdown returns exactly one entry per distinct Plane
\* record the pilot has flown, two different Plane records never sharing an
\* entry; an entry's hours are the sum of flight_time over the flights on
\* that plane, its location the first waypoint of the route of the
\* latest-dated flight on that plane; the entries are in descending order
\* of hours.
C13_OneEntryPerPlane ==
    IsAircraftCall =>
        /\ \E entryOf \in [PlanesFlown -> DOMAIN call.ret] :
              /\ \A p, q \in PlanesFlown : p # q => entryOf[p] # entryOf[q]
              /\ \A i \in DOMAIN call.ret : \E p \in PlanesFlown : entryOf[p] = i
              /\ \A p \in PlanesFlown : EntryOfPlane(call.ret[entryOf[p]], p)
        /\ \A i, j \in DOMAIN call.ret : i < j => call.ret[i].hours >= call.ret[j].hours

IsClassCall == call.fn = "get_aircraft_class_breakdown"
ClassFlights(c) == {x \in FlightsOf(call.pilot) : Planes[x[1].plane].plane_class = c}
ClassesFlown == {Planes[x[1].plane].plane_class : x \in FlightsOf(call.pilot)}
AbsDiff(a, b) == IF a >= b THEN a - b ELSE b - a

\* C14: aircraft_class_breakdown reports per aircraft class its hours, its
\* number of flights and percentage = class hours / total hours * 100, the
\* percentages being rounded to the tenth of a percent: they sum to 100 up
\* to that rounding when the total is positive, and every class reads 0,
\* the call returning normally, when the total is 0.
C14_ClassBreakdown ==
    IsClassCall =>
        LET fs == FlightsOf(call.pilot)
            total == SumBy(fs, [x \in fs |-> x[1].flight_time])
            Hours(c) == SumBy(ClassFlights(c), [x \in ClassFlights(c) |-> x[1].flight_time])
            shares == [c \in ClassesFlown |-> call.ret[c].percentage]
        IN  /\ DOMAIN call.ret = ClassesFlown
            /\ \A c \in ClassesFlown :
                  /\ call.ret[c].hours = Hours(c)
                  /\ call.ret[c].flight_count = Cardinality(ClassFlights(c))
                  /\ total > 0 =>
                        2 * AbsDiff(call.ret[c].percentage * total, Hours(c) * 1000) <= total
                  /\ total = 0 => call.ret[c].percentage = 0
            /\ total > 0 =>
                  2 * AbsDiff(SumBy(ClassesFlown, shares), 1000) <= Cardinality(ClassesFlown)

\* A call over two classes in the ratio 1 : 2 (33.3 % and 66.7 %).
C14_Witness ==
    /\ IsClassCall
    /\ DOMAIN call.ret = {"Single Engine Land", "Multi Engine Land"}
    /\ call.ret["Single Engine Land"].percentage = 333
    /\ call.ret["Multi Engine Land"].percentage = 667
    /\ call.ret["Multi Engine Land"].flight_count = 2


(***************************************************************************)
(* Claims on get_passenger_leaderboard.                                    *)
(***************************************************************************)
IsPassengerCall == call.fn = "get_passenger_leaderboard"

\* The flights of the pilot that carried person p as a passenger.
FlightsCarrying(p) == {x \in FlightsOf(call.pilot) : p \in x[1].passengers}
RankedPassengers ==
    {p \in DOMAIN People : People[p].role = "PA" /\ FlightsCarrying(p) # {}}
CarriedCount(p) == Cardinality(FlightsCarrying(p))
CarriedTime(p) == SumOver(FlightsCarrying(p), "flight_time")
OutranksPassenger(p, q) ==
    \/ CarriedCount(p) > CarriedCount(q)
    \/ CarriedCount(p) = CarriedCount(q) /\ CarriedTime(p) > CarriedTime(q)

\* C15: passenger_leaderboard(limit) lists each distinct person of role
\* Passenger among the passengers of at least one of the pilot's flights at
\* most once, and nobody of another role, with the number of such flights
\* and the sum of their flight_time; the entries are in descending order of
\* flight_count, ties in descending order of total_time; the result is the
\* first limit entries of that ranking, so that nobody left out outranks
\* anybody listed.
C15_PassengerLeaderboard ==
    IsPassengerCall =>
        LET listed == {call.ret[i].pilot : i \in DOMAIN call.ret}
        IN  /\ Len(call.ret) = Min(call.limit, Cardinality(RankedPassengers))
            /\ listed \subseteq RankedPassengers
            /\ \A i \in DOMAIN call.ret :
                  /\ call.ret[i].flight_count = CarriedCount(call.ret[i].pilot)
                  /\ call.ret[i].total_time = CarriedTime(call.ret[i].pilot)
            /\ \A i, j \in DOMAIN call.ret :
                  i < j => /\ call.ret[i].pilot # call.ret[j].pilot
                           /\ ~OutranksPassenger(call.ret[j].pilot, call.ret[i].pilot)
            /\ \A p \in RankedPassengers \ listed :
                  \A i \in DOMAIN call.ret : ~OutranksPassenger(p, call.ret[i].pilot)

\* A call with limit 1 over two passengers of equal flight count and unequal
\* time, and a person of role Pilot aboard one of the flights: the passenger
\* with more time is listed alone.
C15_Witness ==
    /\ IsPassengerCall
    /\ call.limit = 1
    /\ RankedPassengers = {1, 2}
    /\ CarriedCount(1) = CarriedCount(2) /\ CarriedTime(2) > CarriedTime(1)
    /\ \E x \in FlightsOf(call.pilot) : 5 \in x[1].passengers
    /\ Len(call.ret) = 1 /\ call.ret[1].pilot = 2


(***************************************************************************)
(* Claims on get_instructor_leaderboard.                                   *)
(***************************************************************************)
IsInstructorCall == call.fn = "get_instructor_leaderboard"

FlightsTaughtBy(p) == {x \in FlightsOf(call.pilot) : x[1].instructor = Some(p)}
GroundsTaughtBy(p) ==
    {x \in Rows(grounds) : x[1].pilot = call.pilot /\ x[1].instructor = p}
RankedInstructors ==
    {p \in DOMAIN People :
        /\ People[p].role = "I" \/ People[p].role = "E"
        /\ FlightsTaughtBy(p) # {} \/ GroundsTaughtBy(p) # {}}
TaughtTime(p) ==
    SumOver(FlightsTaughtBy(p), "flight_time") + SumOver(GroundsTaughtBy(p), "ground_time")

\* C16: instructor_leaderboard(limit) lists each person of role Instructor
\* or Examiner who instructed the pilot on a flight or a ground session
\* (also one met on the ground only) once, with flights and ground sessions
\* counted and timed separately and total_time their sum; the entries are in
\* descending order of total_time and cut to the first limit; with A on
\* flights of 3.0 and 2.0 hours and 1.0 hour of ground, and B on one flight
\* of 10.0 hours, the result is B (10.0), then A (6.0).
C16_InstructorLeaderboard ==
    IsInstructorCall =>
        LET listed == {call.ret[i].pilot : i \in DOMAIN call.ret}
        IN  /\ Len(call.ret) = Min(call.limit, Cardinality(RankedInstructors))
            /\ listed \subseteq RankedInstructors
            /\ \A i \in DOMAIN call.ret :
                  LET en == call.ret[i]
                  IN  /\ en.flight_count = Cardinality(FlightsTaughtBy(en.pilot))
                      /\ en.flight_time = SumOver(FlightsTaughtBy(en.pilot), "flight_time")
                      /\ en.ground_count = Cardinality(GroundsTaughtBy(en.pilot))
                      /\ en.ground_time = SumOver(GroundsTaughtBy(en.pilot), "ground_time")
                      /\ en.total_time = en.flight_time + en.ground_time
            /\ \A i, j \in DOMAIN call.ret :
                  i < j => /\ call.ret[i].pilot # call.ret[j].pilot
                           /\ call.ret[i].total_time >= call.ret[j].total_time
            /\ \A p \in RankedInstructors \ listed :
                  \A i \in DOMAIN call.ret : TaughtTime(p) <= call.ret[i].total_time

\* The example: A (3) on flights of 3.0 and 2.0 hours and 1.0 hour of
\* ground, B (4) on one flight of 10.0 hours; B is first with 10.0, then A
\* with 6.0.
C16_Witness ==
    /\ IsInstructorCall
    /\ {x[1].flight_time : x \in FlightsTaughtBy(3)} = {30, 20}
    /\ {x[1].ground_time : x \in GroundsTaughtBy(3)} = {10}
    /\ {x[1].flight_time : x \in FlightsTaughtBy(4)} = {100}
    /\ Cardinality(FlightsOf(call.pilot)) = 3
    /\ Len(call.ret) = 2
    /\ call.ret[1].pilot = 4 /\ call.ret[1].total_time = 100
    /\ call.ret[2].pilot = 3 /\ call.ret[2].total_time = 60
    /\ call.ret[2].flight_count = 2 /\ call.ret[2].ground_count = 1


(***************************************************************************)
(* Claims on get_people_role_distribution and get_unique_people_counts.    *)
(***************************************************************************)
IsDistributionCall == call.fn = "get_people_role_distribution"

\* The flight carries a passenger of role Passenger.
CarriesPassenger(x) == \E p \in x[1].passengers : People[p].role = "PA"
\* The flight's instructor is a person of role Instructor or Examiner.
IsInstructed(x) ==
    \E p \in DOMAIN People :
        x[1].instructor = Some(p) /\ (People[p].role = "I" \/ People[p].role = "E")

\* C17: in people_role_distribution a flight is solo exactly when it has no
\* passenger of role Passenger and no instructor of role Instructor or
\* Examiner; one flight can count both as a passenger flight and as an
\* instruction flight; every flight is in at least one bucket, no solo
\* flight is in another, and solo + passenger + instruction - (flights in
\* both) = total flights.
C17_RoleDistribution ==
    IsDistributionCall =>
        LET fs == FlightsOf(call.pilot)
            solo == {x \in fs : ~CarriesPassenger(x) /\ ~IsInstructed(x)}
            withPassenger == {x \in fs : CarriesPassenger(x)}
            instructed == {x \in fs : IsInstructed(x)}
        IN  /\ call.ret.solo_flights = Cardinality(solo)
            /\ call.ret.passenger_flights = Cardinality(withPassenger)
            /\ call.ret.instruction_flights = Cardinality(instructed)
            /\ solo \cup withPassenger \cup instructed = fs
            /\ solo \cap (withPassenger \cup instructed) = {}
            /\ call.ret.solo_flights + call.ret.passenger_flights
                 + call.ret.instruction_flights
                 - Cardinality(withPassenger \cap instructed) = Cardinality(fs)

\* A call over a flight counted in both buckets, a flight whose only
\* companion is an instructor reference of role Pilot (solo), and a flight
\* with passengers only.
C17_Witness ==
    /\ IsDistributionCall
    /\ \E x \in FlightsOf(call.pilot) : CarriesPassenger(x) /\ IsInstructed(x)
    /\ \E x \in FlightsOf(call.pilot) : x[1].instructor = Some(5)
    /\ call.ret.solo_flights = 1
    /\ call.ret.passenger_flights = 2
    /\ call.ret.instruction_flights = 1

IsUniqueCall == call.fn = "get_unique_people_counts"

\* C18: unique_people_counts reports the number of distinct passengers (role
\* Passenger), the number of distinct instructors (role Instructor or
\* Examiner), and total_unique_people, the size of the union of the two
\* sets: each person is counted once however many flights they were on.
C18_UniquePeople ==
    IsUniqueCall =>
        LET fs == FlightsOf(call.pilot)
            passengerSet == {p \in DOMAIN People :
                                People[p].role = "PA" /\ \E x \in fs : p \in x[1].passengers}
            instructorSet == {p \in DOMAIN People :
                                 /\ People[p].role = "I" \/ People[p].role = "E"
                                 /\ \E x \in fs : x[1].instructor = Some(p)}
        IN  /\ call.ret.unique_passengers = Cardinality(passengerSet)
            /\ call.ret.unique_instructors = Cardinality(instructorSet)
            /\ call.ret.total_unique_people = Cardinality(passengerSet \cup instructorSet)

\* A call over three flights on which one passenger rode twice and one
\* instructor taught twice: two passengers, one instructor, three people.
C18_Witness ==
    /\ IsUniqueCall
    /\ Cardinality({x \in FlightsOf(call.pilot) : 1 \in x[1].passengers}) >= 2
    /\ Cardinality({x \in FlightsOf(call.pilot) : x[1].instructor = Some(3)}) >= 2
    /\ call.ret.unique_passengers = 2
    /\ call.ret.unique_instructors = 1
    /\ call.ret.total_unique_people = 3


(***************************************************************************)
(* Claims on get_instructor_time_progression.                              *)
(***************************************************************************)
IsProgressionCall == call.fn = "get_instructor_time_progression"

\* The pilot's flights with an instructor of role Instructor or Examiner,
\* and their distinct dates D.
ProgressionFlightsOf(p) ==
    {x \in FlightsOf(call.pilot) : IsInstructed(x) /\ x[1].instructor = Some(p)}
ProgressionInstructors ==
    {p \in DOMAIN People : ProgressionFlightsOf(p) # {}}
ProgressionDates ==
    {x[1].date : x \in UNION {ProgressionFlightsOf(p) : p \in ProgressionInstructors}}
\* The dates of D on or after the first flight of instructor p.
DatesFromFirst(p) ==
    {d \in ProgressionDates : \E x \in ProgressionFlightsOf(p) : DateLE(x[1].date, d)}
TimeUpTo(p, d) ==
    SumOver({x \in ProgressionFlightsOf(p) : DateLE(x[1].date, d)}, "flight_time")

\* C19: in instructor_time_progression, over the sorted set D of the
\* distinct dates of instructed flights, each instructor's series has
\* exactly one point for every date of D on or after that instructor's
\* first flight and none for an earlier date; the value at date d is the
\* sum of flight_time of that instructor's flights dated on or before d;
\* the values of a series never decrease.
C19_Progression ==
    IsProgressionCall =>
        /\ DOMAIN call.ret.instructors = ProgressionInstructors
        /\ \A p \in ProgressionInstructors :
              LET series == call.ret.instructors[p].data
              IN  /\ Len(series) = Cardinality(DatesFromFirst(p))
                  /\ {series[i].x : i \in DOMAIN series}
                       = {StrfDate(d) : d \in DatesFromFirst(p)}
                  /\ \A i \in DOMAIN series : \A d \in DatesFromFirst(p) :
                        series[i].x = StrfDate(d) => series[i].y = TimeUpTo(p, d)
                  /\ \A i, j \in DOMAIN series : i < j => series[i].y <= series[j].y

\* A call over three dates: instructor 3 flies on the first and the last,
\* examiner 4 on the middle one only.  The series of 4 has no point on the
\* first date and keeps its value on the last; the series of 3 has a point
\* on the middle date.
C19_Witness ==
    /\ IsProgressionCall
    /\ {x[1].date : x \in ProgressionFlightsOf(3)} = {Date(2024, 12, 31), Date(2025, 10, 2)}
    /\ {x[1].date : x \in ProgressionFlightsOf(4)} = {Date(2025, 2, 10)}
    /\ Len(call.ret.instructors[3].data) = 3
    /\ Len(call.ret.instructors[4].data) = 2
    /\ call.ret.instructors[4].data[2] = [x |-> StrfDate(Date(2025, 10, 2)), y |-> 10]
    /\ call.ret.instructors[3].data[3].y = 20


(***************************************************************************)
(* Claim on repeated evaluation.                                           *)
(***************************************************************************)
RankedFunctions ==
    {"get_passenger_leaderboard", "get_instructor_leaderboard",
     "get_aircraft_breakdown", "get_aircraft_type_statistics"}

\* The step is a second evaluation of the function just evaluated, with the
\* same arguments, over the same ledger and clock.
IsRepeatedCall ==
    /\ call.fn \in RankedFunctions
    /\ call'.fn = call.fn
    /\ [call' EXCEPT !.ret = <<>>] = [call EXCEPT !.ret = <<>>]
    /\ UNCHANGED <<flights, sims, grounds, medicals, today>>

\* C20: two evaluations of a function with the same ledger and arguments
\* return the same output, the order of the entries of passenger_leaderboard,
\* instructor_leaderboard, aircraft_breakdown and aircraft_type_statistics
\* included when two entries are equal in the ranking key, whatever the
\* order in which the storage layer returns the records.
C20_Deterministic == [][IsRepeatedCall => call'.ret = call.ret]_vars


(***************************************************************************)
(* Claims on get_recent_flights and get_cumulative_time_data.              *)
(***************************************************************************)
IsRecentCall == call.fn = "get_recent_flights"

\* The field names of a Flight row.
FlightFields == DOMAIN BlankFlight

\* C21: no function changes the ledger: after a call every stored Flight,
\* Ground, SimulatorFlight and Medical record is the same as before it;
\* recent_flights attaches total_day_landings and total_night_landings
\* (day_landings + day_fullstop_landings, night_landings +
\* night_fullstop_landings) to the objects it returns, and no stored Flight
\* carries them.
C21_LedgerUnchanged ==
    [][call'.fn # "none" =>
          /\ flights' = flights /\ sims' = sims
          /\ grounds' = grounds /\ medicals' = medicals
          /\ \A x \in Rows(flights') : DOMAIN x[1] = FlightFields
          /\ call'.fn = "get_recent_flights" =>
                 \A i \in DOMAIN call'.ret :
                     LET o == call'.ret[i]
                     IN  /\ o.total_day_landings =
                                o.day_landings + o.day_fullstop_landings
                         /\ o.total_night_landings =
                                o.night_landings + o.night_fullstop_landings
                         /\ \E x \in FlightsOf(call'.pilot) :
                                \A f \in FlightFields : x[1][f] = o[f]]_vars

\* recent_flights returned two objects, each with 1 + 2 landings by day,
\* while the table holds three flights.
C21_Witness ==
    /\ IsRecentCall
    /\ Len(call.ret) = 2
    /\ BagCardinality(flights) = 3
    /\ \A i \in DOMAIN call.ret :
           call.ret[i].total_day_landings = 3 /\ call.ret[i].total_night_landings = 0

IsCumulativeCall == call.fn = "get_cumulative_time_data"

\* The ways of numbering the rows 1..n with dates never descending.
AscendingNumberings(rows) ==
    {s \in [1..Cardinality(rows) -> rows] :
        /\ \A i, j \in DOMAIN s : i # j => s[i] # s[j]
        /\ \A i, j \in DOMAIN s : i < j => DateLE(s[i][1].date, s[j][1].date)}

\* The sum of a field over the first k rows of a numbering.
SumFirst(s, k, field) == SumOver({s[i] : i \in 1..k}, field)

\* C23: cumulative_time_data returns one point per flight of the pilot in
\* ascending date order; the k-th point carries the sums over the first k
\* flights of flight_time (total), pic_time (pic), flight_training_received
\* (dual) and actual + simulated instrument time (instrument); each series
\* never decreases, and the last point's total, pic and dual equal
\* total_times' total_time, pic_time and dual_time.
C23_Cumulative ==
    IsCumulativeCall =>
        LET ret == call.ret
            fs == FlightsOf(call.pilot)
            n == Cardinality(fs)
            totals == TotalTimes(call.pilot)
        IN  /\ Len(ret) = n
            /\ \E s \in AscendingNumberings(fs) :
                   \A k \in 1..n :
                       /\ ret[k].date = StrfDate(s[k][1].date)
                       /\ ret[k].total = SumFirst(s, k, "flight_time")
                       /\ ret[k].pic = SumFirst(s, k, "pic_time")
                       /\ ret[k].dual = SumFirst(s, k, "flight_training_received")
                       /\ ret[k].instrument =
                              SumFirst(s, k, "actual_instrument_time")
                              + SumFirst(s, k, "simulated_instrument_time")
            /\ \A k \in 1..(n - 1) :
                   /\ ~TextLT(ret[k + 1].date, ret[k].date)
                   /\ ret[k].total <= ret[k + 1].total
                   /\ ret[k].pic <= ret[k + 1].pic
                   /\ ret[k].dual <= ret[k + 1].dual
                   /\ ret[k].instrument <= ret[k + 1].instrument
            /\ n > 0 =>
                   /\ ret[n].total = totals.total_time
                   /\ ret[n].pic = totals.pic_time
                   /\ ret[n].dual = totals.dual_time

\* Three flights, two of them of one date, with a series that stays level
\* from one point to the next and one that rises.
C23_Witness ==
    /\ IsCumulativeCall
    /\ Len(call.ret) = 3
    /\ call.ret[1].date = call.ret[2].date
    /\ call.ret[2].pic = call.ret[1].pic
    /\ call.ret[2].total > call.ret[1].total
    /\ call.ret[3].instrument > call.ret[2].instrument

(***************************************************************************)
(* Claims on get_people_insights.                                          *)
(***************************************************************************)
IsInsightsCall == call.fn = "get_people_insights"

\* pc, in tenths of a percent, is part / whole * 100 rounded to the tenth,
\* and 0 when whole is 0; it lies within 0..100.
IsShare(pc, part, whole) ==
    /\ whole > 0 => 2 * AbsDiff(pc * whole, part * 1000) <= whole
    /\ whole = 0 => pc = 0
    /\ 0 <= pc /\ pc <= 1000

C25_CurrentIffNotExpired ==
    IsCurrencyCall =>
        /\ call.ret.day_current <=>
               /\ ~IsNone(call.ret.day_expiry)
               /\ DateLE(call.now, Val(call.ret.day_expiry))
        /\ call.ret.night_current <=>
               /\ ~IsNone(call.ret.night_expiry)
               /\ DateLE(call.now, Val(call.ret.night_expiry))

\* Day currency on its last day (the third landing 90 days before as_of)
\* beside a single night landing to a full stop: not current, no expiry.
C25_Witness ==
    /\ IsCurrencyCall
    /\ call.ret.day_current
    /\ call.ret.day_expiry = Some(call.now)
    /\ call.ret.night_landings = 1
    /\ ~call.ret.night_current
    /\ IsNone(call.ret.night_expiry)

(***************************************************************************)
(* Claims on days_until_currency_expires and on the currency over time.    *)
(***************************************************************************)
IsDaysUntilCall == call.fn = "days_until_currency_expires"

\* The call read one date as as_of in both of its reads of the clock.
OneAsOf == IsDaysUntilCall /\ call.reads[1] = call.reads[2]

\* No flight of the pilot is dated after d.
NoFlightAfter(pilot, d) == \A x \in FlightsOf(pilot) : DateLE(x[1].date, d)

\* C26: days_until_currency_expires(pilot, type), evaluated at one as_of,
\* returns null exactly when the pilot is not current for that type at as_of
\* (fewer than 3 landings of that type on flights dated as_of - 90 days or
\* later), or the type is neither 'day' nor 'night'; when current it returns
\* expiry - as_of in days, a whole number within 0..90 when no flight is
\* dated after as_of.
C26_DaysUntilExpiry ==
    OneAsOf =>
        LET as_of == call.reads[1]
            Known == call.currency_type \in {"day", "night"}
            landings == IF call.currency_type = "day" THEN "day_landings"
                        ELSE "night_fullstop_landings"
            current ==
                Known /\ LandingsSince(call.pilot, landings, AddDays(as_of, -90), FALSE) >= 3
            expiry == IF call.currency_type = "day" THEN call.currency.day_expiry
                      ELSE call.currency.night_expiry
        IN  /\ IsNone(call.ret) <=> ~current
            /\ current =>
                  /\ ~IsNone(expiry)
                  /\ Val(call.ret) = DaysBetween(Val(expiry), as_of)
                  /\ NoFlightAfter(call.pilot, as_of) => Val(call.ret) \in 0..90

\* Night currency on its last day and on its last but one, no flight dated
\* ahead: 0 and 1 days are left.
C26_Witness ==
    /\ OneAsOf
    /\ call.currency_type = "night"
    /\ NoFlightAfter(call.pilot, call.reads[1])
    /\ call.ret \in {Some(0), Some(1)}
    /\ call.reads[1] # Ref

\* C27: for a fixed ledger with no flight dated after as_of, as as_of moves
\* on day by day the counts of landings in the window never increase, the
\* expiry dates do not change, and day_current or night_current, once
\* false, stays false until a flight is added.
C27_NeverRegained ==
    [][(/\ IsCurrencyCall
        /\ call'.fn = "check_passenger_currency"
        /\ call'.pilot = call.pilot
        /\ NoFlightAfter(call.pilot, call.now)) =>
           /\ flights' = flights
           /\ DateLE(call.now, call'.now)
           /\ call'.ret.day_landings <= call.ret.day_landings
           /\ call'.ret.night_landings <= call.ret.night_landings
           /\ call'.ret.day_expiry = call.ret.day_expiry
           /\ call'.ret.night_expiry = call.ret.night_expiry
           /\ ~call.ret.day_current => ~call'.ret.day_current
           /\ ~call.ret.night_current => ~call'.ret.night_current]_vars

\* Two days on, the ledger holds flights with 4 landings by day and 6 by
\* night to a full stop; those of 90 and 89 days before Ref have left the
\* window and both currencies have lapsed, the expiries standing at the
\* dates they had.
C27_Witness ==
    /\ IsCurrencyCall
    /\ call.now = AddDays(Ref, 2)
    /\ NoFlightAfter(call.pilot, Ref)
    /\ SumOver(FlightsOf(call.pilot), "day_landings") = 4
    /\ call.ret.day_landings = 0 /\ ~call.ret.day_current
    /\ call.ret.night_landings = 0 /\ ~call.ret.night_current
    /\ call.ret.day_expiry = Some(AddDays(Ref, 1))
    /\ call.ret.night_expiry = Some(AddDays(Ref, 1))

(***************************************************************************)
(* Claims on the privilege level over time.                                *)
(***************************************************************************)
\* A privilege level as a rank: 1 the highest, 4 for none.
LevelRank(level) == IF IsNone(level) THEN 4 ELSE Val(level)

\* The levels a certificate of a class can be reported at.
LevelsOfClass(c) ==
    IF c = 1 THEN {Some(1), Some(3), None}
    ELSE IF c = 2 THEN {Some(2), Some(3), None}
    ELSE {Some(3), None}

\* C28: for a fixed medical, as as_of moves on the privilege level never
\* improves: a first-class certificate goes from level 1 to 3 to expired
\* and is never reported at level 2, a second-class one from 2 to 3 to
\* expired, a third-class one from 3 to expired; once expired it stays null.
C28_NeverImproves ==
    [][(/\ HasMedical
        /\ call'.fn = "check_medical_status"
        /\ ~call'.raised
        /\ Val(call'.ret).has_medical
        /\ Val(call'.ret).original_class = Val(call.ret).original_class
        /\ Val(call'.ret).examination_date = Val(call.ret).examination_date
        /\ DateLE(call.reads[1], call'.reads[1])) =>
           /\ LevelRank(Val(call'.ret).current_class) >= LevelRank(Val(call.ret).current_class)
           /\ Val(call'.ret).current_class
                  \in LevelsOfClass(Val(Val(call'.ret).original_class))
           /\ IsNone(Val(call.ret).current_class) => IsNone(Val(call'.ret).current_class)]_vars

\* A first-class certificate of January 2024 read on the last day of January
\* 2029: it stands at level 3.
C28_Witness ==
    /\ HasMedical
    /\ Val(call.ret).original_class = Some(1)
    /\ Val(call.ret).examination_date = Some(Date(2024, 1, 15))
    /\ call.reads[1] = Date(2029, 1, 31)
    /\ Val(call.ret).current_class = Some(3)

(***************************************************************************)
(* Claims on the agreement of the fields of check_medical_status.          *)
(***************************************************************************)
\* C29: in a medical_status with has_medical true, expiry is the expiry of
\* the class current_class names (first, second or third) and is null
\* exactly when current_class is null; status is "expired" exactly when
\* current_class is null; days_remaining is null exactly when status is
\* "expired" and is 0 or more when status is "critical", "warning" or
\* "current"; this holds also when the calendar date changes between the
\* function's reads of the current date.
C29_FieldsAgree ==
    HasMedical =>
        LET r == Val(call.ret)
        IN  /\ r.expiry = (IF r.current_class = Some(1) THEN r.first_class_expiry
                           ELSE IF r.current_class = Some(2) THEN r.second_class_expiry
                           ELSE IF r.current_class = Some(3) THEN r.third_class_expiry
                           ELSE None)
            /\ IsNone(r.expiry) <=> IsNone(r.current_class)
            /\ r.status = "expired" <=> IsNone(r.current_class)
            /\ IsNone(r.days_remaining) <=> r.status = "expired"
            /\ r.status \in {"critical", "warning", "current"} =>
                   Val(r.days_remaining) >= 0

(***************************************************************************)
(* Claims on unique_people_counts beside people_role_distribution.         *)
(***************************************************************************)
\* C30: unique_people_counts.total_interactions and
\* people_role_distribution.solo_flights add up to the number of the
\* pilot's flights, also when the instructor reference of a flight points
\* to a person of role Pilot or Passenger.
C30_InteractionsPlusSolo ==
    IsUniqueCall =>
        call.ret.total_interactions + PeopleRoleDistribution(call.pilot).solo_flights
            = Cardinality(FlightsOf(call.pilot))

(***************************************************************************)
(* Claims on a pilot without data.                                         *)
(***************************************************************************)
\* The pilot has no flight, ground session, simulator session or medical.
HasNoRows(pilot) ==
    \A x \in Rows(flights) \cup Rows(sims) \cup Rows(grounds) \cup Rows(medicals) :
        x[1].pilot # pilot

\* The functions that return a list.
ListFunctions ==
    {"get_passenger_leaderboard", "get_instructor_leaderboard",
     "get_cumulative_time_data", "get_recent_flights", "get_aircraft_breakdown",
     "get_aircraft_type_statistics"}

\* C22: empty data is not an error: for a pilot with no flights, ground
\* sessions, simulator sessions or medicals every function returns
\* normally: total_times has every sum 0, days_since_last_flight is null,
\* both currency expiries are null with both counts 0 and both flags false,
\* aircraft_highlights has most_flown and least_flown null and
\* total_aircraft 0, leaderboards and cumulative data are empty lists, and
\* every percentage is 0.
C22_EmptyData ==
    (call.fn # "none" /\ HasNoRows(call.pilot)) =>
        LET fn == call.fn
            ret == call.ret
        IN  /\ fn = "get_total_times" => \A k \in DOMAIN ret : ret[k] = 0
            /\ fn = "get_days_since_last_flight" => IsNone(ret)
            /\ fn = "check_passenger_currency" =>
                  /\ ~ret.day_current /\ ret.day_landings = 0 /\ IsNone(ret.day_expiry)
                  /\ ~ret.night_current /\ ret.night_landings = 0
                  /\ IsNone(ret.night_expiry)
            /\ fn = "days_until_currency_expires" => IsNone(ret)
            /\ fn = "get_aircraft_highlights" =>
                  /\ IsNone(ret.most_flown) /\ IsNone(ret.least_flown)
                  /\ ret.total_aircraft = 0
            /\ fn \in ListFunctions => ret = <<>>
            /\ fn = "get_aircraft_class_breakdown" => DOMAIN ret = {}
            /\ fn = "get_instructor_time_progression" =>
                  DOMAIN ret.instructors = {} /\ ret.progression_data = <<>>
            /\ fn = "get_monthly_breakdown" =>
                  /\ Len(ret) = call.months
                  /\ \A i \in DOMAIN ret : ret[i].hours = 0
            /\ fn = "get_xc_pic_time" => ret = 0
            /\ fn = "get_instrument_rating_progress" =>
                  /\ ret.percentage = 0 /\ ret.xc_pic_percentage = 0
                  /\ ret.creditable_total = 0
            /\ fn = "get_commercial_license_progress" =>
                  /\ ret.total_time.percentage = 0 /\ ret.pic_time.percentage = 0
                  /\ ret.xc_pic_time.percentage = 0
            /\ fn = "get_people_role_distribution" => \A k \in DOMAIN ret : ret[k] = 0
            /\ fn = "get_unique_people_counts" => \A k \in DOMAIN ret : ret[k] = 0
            /\ fn = "get_people_insights" =>
                  /\ IsNone(ret.most_frequent_passenger)
                  /\ IsNone(ret.most_frequent_instructor)
                  /\ ret.passenger_flight_percentage = 0
                  /\ ret.instruction_flight_percentage = 0
            /\ fn = "check_medical_status" =>
                  /\ ~call.raised
                  /\ ~Val(ret).has_medical /\ Val(ret).status = "none"
                  /\ IsNone(Val(ret).days_remaining)

\* A call for the pilot without rows while the tables hold flights, a
\* simulator session, a ground session and a medical of the other pilot.
C22_Witness ==
    /\ call.fn = "get_people_insights"
    /\ HasNoRows(call.pilot)
    /\ BagCardinality(flights) >= 2
    /\ BagCardinality(sims) >= 1
    /\ BagCardinality(grounds) >= 1
    /\ BagCardinality(medicals) >= 1
====
